---------------------------- MODULE Spec2Model ----------------------------
(***************************************************************************)
(* Model of the sculpt automasking subsystem                               *)
(* (source/blender/editors/sculpt_paint/sculpt_automasking.c).             *)
(*                                                                         *)
(* Numbers.  The code computes in C floats.  The model computes in IEEE    *)
(* single precision as well: every operation rounds to nearest, ties to    *)
(* even, and the values +inf, -inf and NaN behave as in IEEE arithmetic.   *)
(*                                                                         *)
(* Geometry.  Vertex coordinates lie on the x axis (integer x, y = z = 0)  *)
(* and vertex normals are (+1,0,0) or (-1,0,0), so len_v3v3 and dot_v3v3   *)
(* are exact.  Vertices are numbered from 0 as in the code.                *)
(*                                                                         *)
(* Flags.  A bitmask of eAutomasking_flag is the set of the bits that are  *)
(* set: `a | b' is union and `a & bit' is membership.                      *)
(***************************************************************************)
EXTENDS Integers, Sequences, FiniteSets, TLC

VARIABLES
  ss,          \* SculptSession: the mesh (VertexGraph) and the stroke state
  sd,          \* Sculpt (scene level tool settings)
  brush,       \* the Brush handed to cache_init, or NoBrush (NULL)
  automasking, \* the AutomaskingCache pointer: NULL or the cache object
  phase,       \* where the stroke is: before cache_init, after it, after cache_free
  result,      \* what the last SCULPT_automasking_factor_get returned
  edits,       \* number of mesh edits made by the stroke so far
  bd,          \* locals of SCULPT_boundary_automasking_init while it runs
  cav,         \* locals of sculpt_cavity_automasking_init while it runs
  calls,       \* the SCULPT_automasking_factor_get calls of the workers
  comp         \* the factor array handed from one whole-mesh initializer to the next

vars == <<ss, sd, brush, automasking, phase, result, edits, bd, cav, calls, comp>>

-----------------------------------------------------------------------------
(* Bounds of the model. *)
MaxVerts == 3
MaxCoord == 2
MaxFaceSet == 2
MaxSteps == 2
MaxSceneFlags == 1
MaxRadius == 1
MaxEdits == 1
MaxRounds == 2

-----------------------------------------------------------------------------
(* Float arithmetic: IEEE single precision, round to nearest, ties to even.
   A float is <<m, e>>, the value m * 2^e: 0 is <<0, 0>>, a non-zero finite
   float has a mantissa of FLT_MANT_DIG bits (2^23 <= |m| < 2^24), and the
   exponent F_SPECIAL marks +inf <<1, F_SPECIAL>>, -inf <<-1, F_SPECIAL>> and
   NaN <<0, F_SPECIAL>>.  Not represented: the sign of zero, subnormals and
   overflow, which no computation on factors and small coordinates reaches. *)

FLT_MANT_DIG == 24
F_SPECIAL == 1000

NaN == <<0, F_SPECIAL>>
PosInf == <<1, F_SPECIAL>>
NegInf == <<-1, F_SPECIAL>>
R0 == <<0, 0>>

Abs(i) == IF i < 0 THEN -i ELSE i

Sgn(i) == IF i < 0 THEN -1 ELSE IF i > 0 THEN 1 ELSE 0

Pow2(k) == 2 ^ k

IsNaN(a) == a = NaN
IsInf(a) == a[2] = F_SPECIAL /\ a[1] # 0

\* The float s * q * 2^e, or the next one up, for a mantissa q of
\* FLT_MANT_DIG bits: r of 2^k is the part of the exact value below q, and
\* sticky tells that the exact value has further bits below r.
FloatRoundTo(s, q, r, k, e, sticky) ==
  IF k > 0 /\ (2 * r > Pow2(k) \/ (2 * r = Pow2(k) /\ (sticky \/ q % 2 = 1)))
    THEN (IF q + 1 = Pow2(FLT_MANT_DIG)
            THEN <<s * Pow2(FLT_MANT_DIG - 1), e + 1>>
            ELSE <<s * (q + 1), e>>)
    ELSE <<s * q, e>>

FloatShiftDown(s, M, e, sticky, k) ==
  FloatRoundTo(s, M \div Pow2(k), M % Pow2(k), k, e + k, sticky)

\* The float s * M * 2^e for 0 < M < 2^24, the mantissa moved up in steps
\* of 16, 8, 4, 2 and 1 bits until it has FLT_MANT_DIG bits.
FloatShiftUp1(s, M, e) ==
  IF M < Pow2(FLT_MANT_DIG - 1) THEN <<s * M * 2, e - 1>> ELSE <<s * M, e>>

FloatShiftUp2(s, M, e) ==
  FloatShiftUp1(s, IF M < Pow2(FLT_MANT_DIG - 2) THEN M * 4 ELSE M,
                IF M < Pow2(FLT_MANT_DIG - 2) THEN e - 2 ELSE e)

FloatShiftUp4(s, M, e) ==
  FloatShiftUp2(s, IF M < Pow2(FLT_MANT_DIG - 4) THEN M * 16 ELSE M,
                IF M < Pow2(FLT_MANT_DIG - 4) THEN e - 4 ELSE e)

FloatShiftUp8(s, M, e) ==
  FloatShiftUp4(s, IF M < Pow2(FLT_MANT_DIG - 8) THEN M * 256 ELSE M,
                IF M < Pow2(FLT_MANT_DIG - 8) THEN e - 8 ELSE e)

FloatShiftUp(s, M, e) ==
  FloatShiftUp8(s, IF M < Pow2(FLT_MANT_DIG - 16) THEN M * 65536 ELSE M,
                IF M < Pow2(FLT_MANT_DIG - 16) THEN e - 16 ELSE e)

\* The number of bits M >= 2^23 has beyond FLT_MANT_DIG, for M < 2^31.
FloatExcessBits(M) ==
  IF M >= Pow2(30) THEN 7
  ELSE IF M >= Pow2(29) THEN 6
  ELSE IF M >= Pow2(28) THEN 5
  ELSE IF M >= Pow2(27) THEN 4
  ELSE IF M >= Pow2(26) THEN 3
  ELSE IF M >= Pow2(25) THEN 2
  ELSE IF M >= Pow2(24) THEN 1
  ELSE 0

\* The float nearest to s * M * 2^e for an integer 0 <= M < 2^31 and a sign
\* s; sticky tells that the exact value lies strictly between M and M + 1
\* (times 2^e).
FloatRound(s, M, e, sticky) ==
  IF M = 0 THEN R0
  ELSE IF M < Pow2(FLT_MANT_DIG - 1) THEN FloatShiftUp(s, M, e)
  ELSE FloatShiftDown(s, M, e, sticky, FloatExcessBits(M))

\* (float)i
RInt(i) == FloatRound(Sgn(i), Abs(i), 0, FALSE)

R1 == <<Pow2(FLT_MANT_DIG - 1), 1 - FLT_MANT_DIG>>
RHalf == <<Pow2(FLT_MANT_DIG - 1), -FLT_MANT_DIG>>

RNeg(a) == <<-a[1], a[2]>>
RAbs(a) == <<Abs(a[1]), a[2]>>

\* The product high * 2^24 + low of two mantissas, rounded once.
FloatMulRound(s, high, low, e) ==
  FloatRound(s, high * 128 + (low \div Pow2(17)), e + 17, low % Pow2(17) # 0)

\* hh * 2^24 + mid * 2^12 + ll as high * 2^24 + low.
FloatMulSum(s, hh, mid, ll, e) ==
  FloatMulRound(s,
    hh + (mid \div 4096) + (((mid % 4096) * 4096 + ll) \div Pow2(24)),
    ((mid % 4096) * 4096 + ll) % Pow2(24), e)

\* The 48-bit product of the mantissas ah * 2^12 + al and bh * 2^12 + bl.
FloatMulHalves(s, ah, al, bh, bl, e) ==
  FloatMulSum(s, ah * bh, ah * bl + al * bh, al * bl, e)

\* a * b: inf * 0 is NaN.
RMul(a, b) ==
  IF a[2] = F_SPECIAL \/ b[2] = F_SPECIAL
    THEN (IF a = NaN \/ b = NaN \/ a = R0 \/ b = R0 THEN NaN
          ELSE <<Sgn(a[1]) * Sgn(b[1]), F_SPECIAL>>)
  ELSE IF a = R0 \/ b = R0 THEN R0
  \* a power of two times b, a times a power of two: exact
  ELSE IF Abs(a[1]) = Pow2(FLT_MANT_DIG - 1)
    THEN <<Sgn(a[1]) * b[1], a[2] + b[2] + FLT_MANT_DIG - 1>>
  ELSE IF Abs(b[1]) = Pow2(FLT_MANT_DIG - 1)
    THEN <<a[1] * Sgn(b[1]), a[2] + b[2] + FLT_MANT_DIG - 1>>
  ELSE FloatMulHalves(Sgn(a[1]) * Sgn(b[1]),
                      Abs(a[1]) \div 4096, Abs(a[1]) % 4096,
                      Abs(b[1]) \div 4096, Abs(b[1]) % 4096, a[2] + b[2])

\* One step of the long division by d: seven more bits of the quotient qr[1],
\* with the remainder qr[2].
FloatDivStep(qr, d) ==
  <<qr[1] * 128 + ((qr[2] * 128) \div d), (qr[2] * 128) % d>>

FloatDivRound(s, qr, e) == FloatRound(s, qr[1], e - 28, qr[2] # 0)

\* The quotient n / d of two mantissas, to 28 bits below the point.
FloatDivMantissas(s, n, d, e) ==
  FloatDivRound(s,
    FloatDivStep(FloatDivStep(FloatDivStep(FloatDivStep(
      <<n \div d, n % d>>, d), d), d), d), e)

\* a / b: x / 0 is an infinity for x # 0 (the zero divisors of the code are
\* all +0: a sum of lengths, a count, a converted int), 0 / 0 and inf / inf
\* are NaN, x / inf is 0.
RDiv(a, b) ==
  IF a = NaN \/ b = NaN THEN NaN
  ELSE IF a[2] = F_SPECIAL
    THEN (IF b[2] = F_SPECIAL THEN NaN
          ELSE <<a[1] * (IF b[1] < 0 THEN -1 ELSE 1), F_SPECIAL>>)
  ELSE IF b[2] = F_SPECIAL THEN R0
  ELSE IF b = R0 THEN <<Sgn(a[1]), F_SPECIAL>>
  ELSE IF a = R0 THEN R0
  \* a divided by a power of two: exact
  ELSE IF Abs(b[1]) = Pow2(FLT_MANT_DIG - 1)
    THEN <<a[1] * Sgn(b[1]), a[2] - b[2] - (FLT_MANT_DIG - 1)>>
  ELSE FloatDivMantissas(Sgn(a[1]) * Sgn(b[1]), Abs(a[1]), Abs(b[1]),
                         a[2] - b[2])

\* Mx + My or Mx - My, where sticky tells that My was cut off.
FloatAddAligned(s, same_sign, Mx, My, e, sticky) ==
  FloatRound(s,
             IF same_sign THEN Mx + My
             ELSE IF sticky THEN Mx - My - 1
             ELSE Mx - My,
             e, sticky)

\* x + y with the mantissa of y moved d bits down: six guard bits.
FloatAddShifted(x, y, d) ==
  FloatAddAligned(Sgn(x[1]), Sgn(x[1]) = Sgn(y[1]), Abs(x[1]) * 64,
                  IF d >= 30 THEN 0 ELSE (Abs(y[1]) * 64) \div Pow2(d),
                  x[2] - 6,
                  d >= 30 \/ (Abs(y[1]) * 64) % Pow2(d) # 0)

\* x + y for finite non-zero floats with x the larger in magnitude.
FloatAddOrdered(x, y) == FloatAddShifted(x, y, x[2] - y[2])

\* a + b: inf + inf is inf, inf - inf is NaN.
RAdd(a, b) ==
  IF a[2] = F_SPECIAL \/ b[2] = F_SPECIAL
    THEN (IF a = NaN \/ b = NaN THEN NaN
          ELSE IF a[2] = F_SPECIAL /\ b[2] = F_SPECIAL
            THEN (IF a = b THEN a ELSE NaN)
          ELSE IF a[2] = F_SPECIAL THEN a ELSE b)
  ELSE IF a = R0 THEN b
  ELSE IF b = R0 THEN a
  ELSE IF a[2] > b[2] \/ (a[2] = b[2] /\ Abs(a[1]) >= Abs(b[1]))
    THEN FloatAddOrdered(a, b)
    ELSE FloatAddOrdered(b, a)

RSub(a, b) == RAdd(a, RNeg(b))

\* (float)n / (float)d
Rat(n, d) == RDiv(RInt(n), RInt(d))

\* Comparisons with NaN are false.
RLt(a, b) ==
  /\ a # NaN /\ b # NaN
  /\ IF Sgn(a[1]) # Sgn(b[1]) THEN Sgn(a[1]) < Sgn(b[1])
     ELSE IF a[1] > 0 THEN a[2] < b[2] \/ (a[2] = b[2] /\ a[1] < b[1])
     ELSE a[2] > b[2] \/ (a[2] = b[2] /\ a[1] < b[1])
RLe(a, b) == a # NaN /\ b # NaN /\ (a = b \/ RLt(a, b))

\* BLI signf: (f < 0.0f) ? -1.0f : 1.0f
signf(f) == IF RLt(f, R0) THEN RInt(-1) ELSE R1

\* BLI CLAMP(a, b, c): if (a < b) a = b; else if (a > c) a = c;
CLAMP(a, b, c) == IF RLt(a, b) THEN b ELSE IF RLt(c, a) THEN c ELSE a

\* BLI pow2f
pow2f(x) == RMul(x, x)

InUnitRange(a) == RLe(R0, a) /\ RLe(a, R1)

-----------------------------------------------------------------------------
(* eAutomasking_flag *)
BRUSH_AUTOMASKING_TOPOLOGY == "TOPOLOGY"
BRUSH_AUTOMASKING_FACE_SETS == "FACE_SETS"
BRUSH_AUTOMASKING_BOUNDARY_EDGES == "BOUNDARY_EDGES"
BRUSH_AUTOMASKING_BOUNDARY_FACE_SETS == "BOUNDARY_FACE_SETS"
BRUSH_AUTOMASKING_CAVITY == "CAVITY"
BRUSH_AUTOMASKING_CAVITY_INVERT == "CAVITY_INVERT"

AllFlags ==
  { BRUSH_AUTOMASKING_TOPOLOGY, BRUSH_AUTOMASKING_FACE_SETS,
    BRUSH_AUTOMASKING_BOUNDARY_EDGES, BRUSH_AUTOMASKING_BOUNDARY_FACE_SETS,
    BRUSH_AUTOMASKING_CAVITY, BRUSH_AUTOMASKING_CAVITY_INVERT }

\* Null pointers: to a Brush, to a struct, to a float array.
NoBrush == [null |-> "Brush"]
NULL == [null |-> "struct"]
NULL_ARRAY == <<>>
\* A pointer to an AutomaskingCache that has been freed.
FREED == [freed |-> "AutomaskingCache"]
EDGE_DISTANCE_INF == -1

\* The Sculpt settings sd are a record: automasking_flags, and paint, the
\* Paint settings [brush |-> the brush in use, or NoBrush].
\* BKE_paint_brush (paint.c): the brush of the Paint settings.
BKE_paint_brush(p) == p.brush

-----------------------------------------------------------------------------
(* The VertexGraph collaborator (sculpt.c, the SCULPT_vertex_ functions).
   ss is a record:
     totvert, neighbors[v], co[v], no[v], boundary[v], face_sets[v],
     active_vertex, active_face_set, pbvh_type, pmap, cache, dyntopo
   ss.cache is NULL (no StrokeCache: a filter, not a brush stroke) or
   [radius |-> r]. *)

Verts(s) == 0 .. (s.totvert - 1)

SCULPT_vertex_count_get(s) == s.totvert
SCULPT_vertex_co_get(s, v) == s.co[v]
SCULPT_vertex_normal_get(s, v) == s.no[v]
SCULPT_vertex_neighbors(s, v) == s.neighbors[v]
SCULPT_vertex_is_boundary(s, v) == s.boundary[v]
SCULPT_vertex_has_face_set(s, v, face_set) == face_set \in s.face_sets[v]
SCULPT_vertex_has_unique_face_set(s, v) == Cardinality(s.face_sets[v]) <= 1
SCULPT_active_face_set_get(s) == s.active_face_set
SCULPT_active_vertex_get(s) == s.active_vertex
SCULPT_active_vertex_co_get(s) == s.co[s.active_vertex]

\* No symmetry axis is active (symm = 0): the one location is the origin.
SCULPT_is_vertex_inside_brush_radius_symm(co, location, radius) ==
  Abs(co - location) <= radius

\* A stroke on a dynamic-topology (BMesh) mesh.
SCULPT_stroke_is_dynamic_topology(s, br) == s.dyntopo

\* A float array in memory (MEM_malloc_arrayN): its elements are stored
\* values, each computed once, when the array is written.  f @@ f is f.
float_array(f) == f @@ f

RECURSIVE SumOver(_, _, _)
\* The sum of Term(j) (an integer array indexed by vertex) over the set S.
SumOver(S, term, acc) ==
  IF S = {} THEN acc
  ELSE LET j == CHOOSE x \in S : \A y \in S : x <= y
       IN  SumOver(S \ {j}, term, acc + term[j])

-----------------------------------------------------------------------------
(* sculpt_automasking.c, the pure functions. *)

SCULPT_is_automasking_mode_enabled(sculpt, br, mode) ==
  IF br # NoBrush
    THEN mode \in br.automasking_flags \/ mode \in sculpt.automasking_flags
    ELSE mode \in sculpt.automasking_flags

\* Variant: dynamic topology is tested after the modes.
is_automasking_enabled_dyntopo_last(sculpt, s, br) ==
  IF SCULPT_is_automasking_mode_enabled(sculpt, br, BRUSH_AUTOMASKING_TOPOLOGY) THEN TRUE
  ELSE IF SCULPT_is_automasking_mode_enabled(sculpt, br, BRUSH_AUTOMASKING_FACE_SETS) THEN TRUE
  ELSE IF SCULPT_is_automasking_mode_enabled(sculpt, br, BRUSH_AUTOMASKING_BOUNDARY_EDGES) THEN TRUE
  ELSE IF SCULPT_is_automasking_mode_enabled(sculpt, br, BRUSH_AUTOMASKING_BOUNDARY_FACE_SETS) THEN TRUE
  ELSE IF SCULPT_is_automasking_mode_enabled(sculpt, br, BRUSH_AUTOMASKING_CAVITY) THEN TRUE
  ELSE IF br # NoBrush /\ SCULPT_stroke_is_dynamic_topology(s, br) THEN FALSE
  ELSE FALSE

\* Variant: an empty flag word counts as enabled.
is_automasking_enabled_default_true(sculpt, s, br) ==
  IF br # NoBrush /\ SCULPT_stroke_is_dynamic_topology(s, br) THEN FALSE
  ELSE TRUE

\* Variant: the dynamic-topology early return is missing.
is_automasking_enabled_no_dyntopo(sculpt, s, br) ==
  \E mode \in AllFlags \ {BRUSH_AUTOMASKING_CAVITY_INVERT} :
    SCULPT_is_automasking_mode_enabled(sculpt, br, mode)

SCULPT_is_automasking_enabled(sculpt, s, br) ==
  IF br # NoBrush /\ SCULPT_stroke_is_dynamic_topology(s, br) THEN FALSE
  ELSE IF SCULPT_is_automasking_mode_enabled(sculpt, br, BRUSH_AUTOMASKING_TOPOLOGY) THEN TRUE
  ELSE IF SCULPT_is_automasking_mode_enabled(sculpt, br, BRUSH_AUTOMASKING_FACE_SETS) THEN TRUE
  ELSE IF SCULPT_is_automasking_mode_enabled(sculpt, br, BRUSH_AUTOMASKING_BOUNDARY_EDGES) THEN TRUE
  ELSE IF SCULPT_is_automasking_mode_enabled(sculpt, br, BRUSH_AUTOMASKING_BOUNDARY_FACE_SETS) THEN TRUE
  ELSE IF SCULPT_is_automasking_mode_enabled(sculpt, br, BRUSH_AUTOMASKING_CAVITY) THEN TRUE
  ELSE FALSE

\* Variant: the flags of a brush replace the flags of the scene.
effective_bits_brush_replaces_scene(sculpt, br) ==
  IF br # NoBrush
    THEN br.automasking_flags
    ELSE sculpt.automasking_flags

sculpt_automasking_mode_effective_bits(sculpt, br) ==
  IF br # NoBrush
    THEN sculpt.automasking_flags \cup br.automasking_flags
    ELSE sculpt.automasking_flags

\* Variant: the propagation steps are not looked at.
needs_factors_cache_any_steps(sculpt, br) ==
  LET automasking_flags == sculpt_automasking_mode_effective_bits(sculpt, br)
  IN  IF BRUSH_AUTOMASKING_TOPOLOGY \in automasking_flags THEN TRUE
      ELSE IF automasking_flags \cap
                { BRUSH_AUTOMASKING_BOUNDARY_FACE_SETS,
                  BRUSH_AUTOMASKING_BOUNDARY_EDGES,
                  BRUSH_AUTOMASKING_CAVITY } # {}
        THEN TRUE
        ELSE FALSE

\* Variant: Face Sets is counted among the modes that propagate.
needs_factors_cache_with_face_sets(sculpt, br) ==
  LET automasking_flags == sculpt_automasking_mode_effective_bits(sculpt, br)
  IN  IF BRUSH_AUTOMASKING_TOPOLOGY \in automasking_flags THEN TRUE
      ELSE IF automasking_flags \cap
                { BRUSH_AUTOMASKING_BOUNDARY_FACE_SETS,
                  BRUSH_AUTOMASKING_BOUNDARY_EDGES,
                  BRUSH_AUTOMASKING_CAVITY,
                  BRUSH_AUTOMASKING_FACE_SETS } # {}
        THEN br # NoBrush /\ br.automasking_boundary_edges_propagation_steps # 1
        ELSE FALSE

SCULPT_automasking_needs_factors_cache(sculpt, br) ==
  LET automasking_flags == sculpt_automasking_mode_effective_bits(sculpt, br)
  IN  IF BRUSH_AUTOMASKING_TOPOLOGY \in automasking_flags THEN TRUE
      ELSE IF automasking_flags \cap
                { BRUSH_AUTOMASKING_BOUNDARY_FACE_SETS,
                  BRUSH_AUTOMASKING_BOUNDARY_EDGES,
                  BRUSH_AUTOMASKING_CAVITY } # {}
        THEN br # NoBrush /\ br.automasking_boundary_edges_propagation_steps # 1
        ELSE FALSE

SCULPT_calc_cavity(s, vertex) ==
  LET nb == SCULPT_vertex_neighbors(s, vertex)
      co == SCULPT_vertex_co_get(s, vertex)
      e_num == Cardinality(nb)
      \* elen += len_v3v3(co, co2); add_v3_v3(avg, co2);
      lens == [j \in nb |-> Abs(co - SCULPT_vertex_co_get(s, j))]
      elen_sum == SumOver(nb, lens, 0)
      avg_sum == SumOver(nb, s.co, 0)
  IN  IF e_num = 0 THEN R0
      ELSE LET \* mul_v3_fl(avg, 1.0f / (float)e_num); elen /= e_num;
               avg == RMul(RInt(avg_sum), RDiv(R1, RInt(e_num)))
               elen == RDiv(RInt(elen_sum), RInt(e_num))
               no == RInt(SCULPT_vertex_normal_get(s, vertex))
               \* sub_v3_v3(avg, co); dot_v3v3(avg, no) / elen.  With elen
               \* 0 the quotient is NaN (0/0) or an infinity (x/0).
               dot == RMul(RSub(avg, RInt(co)), no)
           IN  RDiv(dot, elen)

sculpt_automasking_cavity_factor(am, s, vert) ==
  LET factor0 == SCULPT_calc_cavity(s, vert)
      sign == signf(factor0)
      factor1 == RMul(RMul(RAbs(factor0), am.settings.cavity_factor), RInt(50))
      factor2 == RAdd(RMul(RMul(factor1, sign), RHalf), RHalf)
      factor3 == CLAMP(factor2, R0, R1)
  IN  IF BRUSH_AUTOMASKING_CAVITY_INVERT \in am.settings.flags
        THEN RSub(R1, factor3)
        ELSE factor3

\* Variant: the factor array is not consulted.
factor_get_ignores_array(am, s, vert) ==
  IF am = NULL THEN R1
  ELSE IF BRUSH_AUTOMASKING_FACE_SETS \in am.settings.flags
          /\ ~SCULPT_vertex_has_face_set(s, vert, am.settings.initial_face_set)
    THEN R0
  ELSE IF BRUSH_AUTOMASKING_BOUNDARY_EDGES \in am.settings.flags
          /\ SCULPT_vertex_is_boundary(s, vert)
    THEN R0
  ELSE IF BRUSH_AUTOMASKING_BOUNDARY_FACE_SETS \in am.settings.flags
          /\ ~SCULPT_vertex_has_unique_face_set(s, vert)
    THEN R0
  ELSE IF BRUSH_AUTOMASKING_CAVITY \in am.settings.flags
    THEN sculpt_automasking_cavity_factor(am, s, vert)
  ELSE R1

\* Variant: the Cavity branch is taken before the Boundary Face Sets test.
factor_get_cavity_early(am, s, vert) ==
  IF am = NULL THEN R1
  ELSE IF am.factor # NULL_ARRAY THEN am.factor[vert]
  ELSE IF BRUSH_AUTOMASKING_FACE_SETS \in am.settings.flags
          /\ ~SCULPT_vertex_has_face_set(s, vert, am.settings.initial_face_set)
    THEN R0
  ELSE IF BRUSH_AUTOMASKING_BOUNDARY_EDGES \in am.settings.flags
          /\ SCULPT_vertex_is_boundary(s, vert)
    THEN R0
  ELSE IF BRUSH_AUTOMASKING_CAVITY \in am.settings.flags
    THEN sculpt_automasking_cavity_factor(am, s, vert)
  ELSE IF BRUSH_AUTOMASKING_BOUNDARY_FACE_SETS \in am.settings.flags
          /\ ~SCULPT_vertex_has_unique_face_set(s, vert)
    THEN R0
  ELSE R1

\* am.factor is NULL_ARRAY or the array [Verts -> float].
SCULPT_automasking_factor_get(am, s, vert) ==
  IF am = NULL THEN R1
  ELSE IF am.factor # NULL_ARRAY THEN am.factor[vert]
  ELSE IF BRUSH_AUTOMASKING_FACE_SETS \in am.settings.flags
          /\ ~SCULPT_vertex_has_face_set(s, vert, am.settings.initial_face_set)
    THEN R0
  ELSE IF BRUSH_AUTOMASKING_BOUNDARY_EDGES \in am.settings.flags
          /\ SCULPT_vertex_is_boundary(s, vert)
    THEN R0
  ELSE IF BRUSH_AUTOMASKING_BOUNDARY_FACE_SETS \in am.settings.flags
          /\ ~SCULPT_vertex_has_unique_face_set(s, vert)
    THEN R0
  ELSE IF BRUSH_AUTOMASKING_CAVITY \in am.settings.flags
    THEN sculpt_automasking_cavity_factor(am, s, vert)
  ELSE R1

-----------------------------------------------------------------------------
(* The FloodFillEngine collaborator (sculpt.c): breadth-first traversal of
   the adjacency graph.  flood is [queue, visited_verts]; every edge
   (from_v, to_v) to a vertex not visited before is reported to the callback
   once, and to_v is queued when the callback returns true. *)

RECURSIVE SortedSeq(_)
SortedSeq(S) ==
  IF S = {} THEN <<>>
  ELSE LET j == CHOOSE x \in S : \A y \in S : x <= y
       IN  <<j>> \o SortedSeq(S \ {j})

SCULPT_floodfill_init(s) == [queue |-> <<>>, visited_verts |-> {}]

\* symm = 0: the one initial vertex is the active vertex.
SCULPT_floodfill_add_active(s, flood) ==
  [queue |-> Append(flood.queue, SCULPT_active_vertex_get(s)),
   visited_verts |-> flood.visited_verts \cup {SCULPT_active_vertex_get(s)}]

\* Variant: the target vertex is marked only when the traversal goes on
\* through it.
floodfill_cb_marks_traversed_only(s, from_v, to_v, data) ==
  LET ret == (~data.use_radius
              \/ SCULPT_is_vertex_inside_brush_radius_symm(
                   SCULPT_vertex_co_get(s, to_v), data.location, data.radius))
  IN  [data |-> [data EXCEPT !.automask_factor =
                   IF ret THEN [data.automask_factor EXCEPT ![to_v] = R1, ![from_v] = R1]
                          ELSE [data.automask_factor EXCEPT ![from_v] = R1]],
       ret |-> ret]

\* data is AutomaskFloodFillData: [automask_factor, radius, use_radius,
\* location].  Returns the data after the call and the callback's result.
automask_floodfill_cb(s, from_v, to_v, data) ==
  [data |-> [data EXCEPT !.automask_factor =
                [data.automask_factor EXCEPT ![to_v] = R1, ![from_v] = R1]],
   ret |-> (~data.use_radius
            \/ SCULPT_is_vertex_inside_brush_radius_symm(
                 SCULPT_vertex_co_get(s, to_v), data.location, data.radius))]

RECURSIVE floodfill_neighbors(_, _, _, _, _)
\* The neighbour loop of one popped vertex from_v; todo is what is left of
\* its neighbours.
floodfill_neighbors(s, flood, data, from_v, todo) ==
  IF todo = <<>> THEN [flood |-> flood, data |-> data]
  ELSE LET to_v == Head(todo)
       IN  IF to_v \in flood.visited_verts
             THEN floodfill_neighbors(s, flood, data, from_v, Tail(todo))
             ELSE LET r == automask_floodfill_cb(s, from_v, to_v, data)
                      fl == [queue |-> IF r.ret THEN Append(flood.queue, to_v)
                                                ELSE flood.queue,
                             visited_verts |-> flood.visited_verts \cup {to_v}]
                  IN  floodfill_neighbors(s, fl, r.data, from_v, Tail(todo))

RECURSIVE SCULPT_floodfill_execute(_, _, _)
SCULPT_floodfill_execute(s, flood, data) ==
  IF flood.queue = <<>> THEN data
  ELSE LET from_v == Head(flood.queue)
           popped == [flood EXCEPT !.queue = Tail(flood.queue)]
           r == floodfill_neighbors(s, popped, data, from_v,
                                    SortedSeq(SCULPT_vertex_neighbors(s, from_v)))
       IN  SCULPT_floodfill_execute(s, r.flood, r.data)

-----------------------------------------------------------------------------
(* sculpt_automasking.c, the whole-mesh initializers.  Each takes the factor
   array and returns it as the call leaves it. *)

sculpt_automasking_is_constrained_by_radius(br) ==
  IF br.falloff_shape = "TUBE" THEN FALSE
  ELSE IF br.sculpt_tool \in {"GRAB", "THUMB", "ROTATE"} THEN TRUE
  ELSE FALSE

pmap_missing(s) == s.pbvh_type = "PBVH_FACES" /\ ~s.pmap

\* The brush is the one of the Paint settings (line 252), not the one given
\* to SCULPT_automasking_cache_init.  read_through_null is the Brush the
\* reads of line 274 yield when that brush is NULL.
SCULPT_topology_automasking_init(sculpt, s, automask_factor, read_through_null) ==
  IF pmap_missing(s) THEN automask_factor
  ELSE LET br == IF BKE_paint_brush(sculpt.paint) # NoBrush
                   THEN BKE_paint_brush(sculpt.paint)
                   ELSE read_through_null
           zeroed == [i \in Verts(s) |-> R0]
           flood == SCULPT_floodfill_add_active(s, SCULPT_floodfill_init(s))
           fdata == [automask_factor |-> zeroed,
                     radius |-> IF s.cache # NULL THEN s.cache.radius ELSE 0,
                     use_radius |-> (s.cache # NULL
                                     /\ sculpt_automasking_is_constrained_by_radius(br)),
                     location |-> SCULPT_active_vertex_co_get(s)]
       IN  SCULPT_floodfill_execute(s, flood, fdata).automask_factor

\* Line 287: the brush is the one of the Paint settings.
sculpt_face_sets_automasking_init(sculpt, s, automask_factor) ==
  IF ~SCULPT_is_automasking_enabled(sculpt, s, BKE_paint_brush(sculpt.paint))
    THEN automask_factor
  ELSE IF pmap_missing(s) THEN automask_factor
  ELSE LET active_face_set == SCULPT_active_face_set_get(s)
       IN  [i \in Verts(s) |->
              IF ~SCULPT_vertex_has_face_set(s, i, active_face_set)
                THEN RMul(automask_factor[i], R0)
                ELSE automask_factor[i]]

\* One blur round (lines 346-364), after SWAP(factor, scratch): bufs.factor is
\* the buffer written, bufs.scratch the buffer read for the neighbours.
cavity_blur_round(s, bufs) ==
  LET factor == bufs.scratch
      scratch == bufs.factor
  IN  [factor |-> float_array([i \in Verts(s) |->
                     LET nb == SCULPT_vertex_neighbors(s, i)
                         tot == Cardinality(nb)
                         RECURSIVE sum_scratch(_, _)
                         sum_scratch(S, acc) ==
                           IF S = {} THEN acc
                           ELSE LET j == CHOOSE x \in S : \A y \in S : x <= y
                                IN  sum_scratch(S \ {j}, RAdd(acc, scratch[j]))
                         sum0 == sum_scratch(nb, R0)
                         sum == IF tot # 0 THEN RDiv(sum0, RInt(tot)) ELSE sum0
                     IN  RMul(RAdd(sum, factor[i]), RHalf)]),
       scratch |-> scratch]

RECURSIVE cavity_blur(_, _, _, _)
cavity_blur(s, bufs, iteration, boundary_propagation_steps) ==
  IF iteration < boundary_propagation_steps - 1
    THEN cavity_blur(s, cavity_blur_round(s, bufs), iteration + 1,
                     boundary_propagation_steps)
    ELSE bufs

\* Line 316: the brush is the one of the Paint settings.
sculpt_cavity_automasking_init(sculpt, s, am, automask_factor, steps) ==
  LET boundary_propagation_steps == steps IN
  IF ~SCULPT_is_automasking_enabled(sculpt, s, BKE_paint_brush(sculpt.paint))
    THEN automask_factor
  ELSE IF pmap_missing(s) THEN automask_factor
  ELSE LET ones == [i \in Verts(s) |-> R1]
           factor0 == IF boundary_propagation_steps > 1 THEN ones
                                                        ELSE automask_factor
           factor1 == float_array([i \in Verts(s) |->
                         RMul(factor0[i],
                              sculpt_automasking_cavity_factor(am, s, i))])
           blurred == cavity_blur(s, [factor |-> factor1, scratch |-> ones], 0,
                                  boundary_propagation_steps)
       IN  IF boundary_propagation_steps > 1
             THEN [i \in Verts(s) |-> RMul(automask_factor[i], blurred.factor[i])]
             ELSE factor1

AUTOMASK_INIT_BOUNDARY_EDGES == "AUTOMASK_INIT_BOUNDARY_EDGES"
AUTOMASK_INIT_BOUNDARY_FACE_SETS == "AUTOMASK_INIT_BOUNDARY_FACE_SETS"

\* Lines 396-410: the seeds get distance 0, every other vertex INF.
boundary_seed(s, mode) ==
  [i \in Verts(s) |->
     IF mode = AUTOMASK_INIT_BOUNDARY_EDGES
       THEN (IF SCULPT_vertex_is_boundary(s, i) THEN 0 ELSE EDGE_DISTANCE_INF)
       ELSE (IF ~SCULPT_vertex_has_unique_face_set(s, i) THEN 0
                                                        ELSE EDGE_DISTANCE_INF)]

\* Variant: any neighbour that already has a distance counts as a source.
boundary_neighbor_test_any_settled(edge_distance, ni, propagation_it) ==
  edge_distance[ni] # EDGE_DISTANCE_INF

\* Variant: a neighbour at the current distance or beyond counts as a source.
boundary_neighbor_test_at_least(edge_distance, ni, propagation_it) ==
  edge_distance[ni] >= propagation_it

\* Line 419: the test made on each neighbour ni of a vertex still at INF.
boundary_neighbor_test(edge_distance, ni, propagation_it) ==
  edge_distance[ni] = propagation_it

\* Lines 414-423: the body of the vertex loop for vertex i, in place.
boundary_vertex_update(s, edge_distance, i, propagation_it) ==
  IF edge_distance[i] # EDGE_DISTANCE_INF THEN edge_distance
  ELSE IF \E ni \in SCULPT_vertex_neighbors(s, i) :
            boundary_neighbor_test(edge_distance, ni, propagation_it)
    THEN [edge_distance EXCEPT ![i] = propagation_it + 1]
    ELSE edge_distance

RECURSIVE boundary_vertex_loop(_, _, _, _)
\* Line 413: for (i = 0; i < totvert; i++), on the one array.
boundary_vertex_loop(s, edge_distance, i, propagation_it) ==
  IF i < SCULPT_vertex_count_get(s)
    THEN boundary_vertex_loop(
           s, boundary_vertex_update(s, edge_distance, i, propagation_it),
           i + 1, propagation_it)
    ELSE edge_distance

RECURSIVE boundary_propagate(_, _, _, _)
\* Line 412: for (propagation_it = 0; propagation_it < propagation_steps; ...)
boundary_propagate(s, edge_distance, propagation_it, propagation_steps) ==
  IF propagation_it < propagation_steps
    THEN boundary_propagate(
           s, boundary_vertex_loop(s, edge_distance, 0, propagation_it),
           propagation_it + 1, propagation_steps)
    ELSE edge_distance

\* Variant: the falloff is stored in the array, not multiplied into it.
boundary_falloff_overwrites(s, edge_distance, propagation_steps, automask_factor) ==
  [i \in Verts(s) |->
     IF edge_distance[i] = EDGE_DISTANCE_INF THEN automask_factor[i]
     ELSE LET p == RSub(R1, Rat(edge_distance[i], propagation_steps))
          IN  RSub(R1, pow2f(p))]

\* Variant: the array is multiplied by the falloff itself.
boundary_falloff_inverted(s, edge_distance, propagation_steps, automask_factor) ==
  [i \in Verts(s) |->
     IF edge_distance[i] = EDGE_DISTANCE_INF THEN automask_factor[i]
     ELSE LET p == RSub(R1, Rat(edge_distance[i], propagation_steps))
          IN  RMul(automask_factor[i], pow2f(p))]

\* Variant: the falloff is p, not its square.
boundary_falloff_linear(s, edge_distance, propagation_steps, automask_factor) ==
  [i \in Verts(s) |->
     IF edge_distance[i] = EDGE_DISTANCE_INF THEN automask_factor[i]
     ELSE LET p == RSub(R1, Rat(edge_distance[i], propagation_steps))
          IN  RMul(automask_factor[i], RSub(R1, p))]

\* Lines 427-434.
boundary_falloff(s, edge_distance, propagation_steps, automask_factor) ==
  [i \in Verts(s) |->
     IF edge_distance[i] = EDGE_DISTANCE_INF THEN automask_factor[i]
     ELSE LET p == RSub(R1, Rat(edge_distance[i], propagation_steps))
              edge_boundary_automask == pow2f(p)
          IN  RMul(automask_factor[i], RSub(R1, edge_boundary_automask))]

\* Variant: the boundary initializer runs without looking at the pmap.
boundary_automasking_init_without_pmap_test(s, mode, propagation_steps, automask_factor) ==
  LET edge_distance ==
        boundary_propagate(s, boundary_seed(s, mode), 0, propagation_steps)
  IN  boundary_falloff(s, edge_distance, propagation_steps, automask_factor)

SCULPT_boundary_automasking_init(s, mode, propagation_steps, automask_factor) ==
  IF ~s.pmap THEN automask_factor
  ELSE LET edge_distance ==
             boundary_propagate(s, boundary_seed(s, mode), 0, propagation_steps)
       IN  boundary_falloff(s, edge_distance, propagation_steps, automask_factor)

-----------------------------------------------------------------------------
(* sculpt_automasking.c, the cache. *)

\* brush->automasking_cavity_factor is read whether or not a brush was given;
\* read_through_null is the value the read yields when brush is NULL.
SCULPT_automasking_cache_settings_update(s, sculpt, br, read_through_null) ==
  [flags |-> sculpt_automasking_mode_effective_bits(sculpt, br),
   initial_face_set |-> SCULPT_active_face_set_get(s),
   cavity_factor |-> IF br # NoBrush THEN br.automasking_cavity_factor
                                     ELSE read_through_null]

\* Lines 472-474.
boundary_propagation_steps_of(br) ==
  IF br # NoBrush THEN br.automasking_boundary_edges_propagation_steps ELSE 1

\* Lines 476-479.
factor_init_topology(sculpt, br, s, f, read_through_null) ==
  IF SCULPT_is_automasking_mode_enabled(sculpt, br, BRUSH_AUTOMASKING_TOPOLOGY)
    THEN SCULPT_topology_automasking_init(sculpt, s, f, read_through_null)
    ELSE f

\* Lines 480-483.
factor_init_face_sets(sculpt, br, s, f) ==
  IF SCULPT_is_automasking_mode_enabled(sculpt, br, BRUSH_AUTOMASKING_FACE_SETS)
    THEN sculpt_face_sets_automasking_init(sculpt, s, f)
    ELSE f

\* Lines 485-489.
factor_init_cavity(sculpt, br, s, am, f) ==
  IF SCULPT_is_automasking_mode_enabled(sculpt, br, BRUSH_AUTOMASKING_CAVITY)
    THEN sculpt_cavity_automasking_init(sculpt, s, am, f,
                                        boundary_propagation_steps_of(br))
    ELSE f

\* Lines 491-495.
factor_init_boundary_edges(sculpt, br, s, f) ==
  IF SCULPT_is_automasking_mode_enabled(sculpt, br, BRUSH_AUTOMASKING_BOUNDARY_EDGES)
    THEN SCULPT_boundary_automasking_init(
           s, AUTOMASK_INIT_BOUNDARY_EDGES, boundary_propagation_steps_of(br), f)
    ELSE f

\* Lines 496-500.
factor_init_boundary_face_sets(sculpt, br, s, f) ==
  IF SCULPT_is_automasking_mode_enabled(sculpt, br, BRUSH_AUTOMASKING_BOUNDARY_FACE_SETS)
    THEN SCULPT_boundary_automasking_init(
           s, AUTOMASK_INIT_BOUNDARY_FACE_SETS, boundary_propagation_steps_of(br), f)
    ELSE f

\* Lines 467-500: the factor array, set to 1.0 and handed to the enabled
\* initializers in turn.  The modes are tested on the brush given (br); the
\* Topology, Face Sets and Cavity initializers are handed sd and fetch the
\* brush of the Paint settings.
automasking_factor_init(sculpt, br, s, am, read_through_null) ==
  factor_init_boundary_face_sets(sculpt, br, s,
    factor_init_boundary_edges(sculpt, br, s,
      factor_init_cavity(sculpt, br, s, am,
        factor_init_face_sets(sculpt, br, s,
          factor_init_topology(sculpt, br, s, [i \in Verts(s) |-> R1],
                               read_through_null)))))

\* read_through_null is the Brush that the reads through a NULL brush yield
\* (line 447 for the brush given, line 274 for the brush of the Paint
\* settings).
SCULPT_automasking_cache_init(sculpt, br, s, read_through_null) ==
  IF ~SCULPT_is_automasking_enabled(sculpt, s, br) THEN NULL
  ELSE LET am == [settings |-> SCULPT_automasking_cache_settings_update(
                                 s, sculpt, br,
                                 read_through_null.automasking_cavity_factor),
                  factor |-> NULL_ARRAY]
       IN  IF ~SCULPT_automasking_needs_factors_cache(sculpt, br) THEN am
           ELSE [am EXCEPT !.factor = automasking_factor_init(
                                        sculpt, br, s, am, read_through_null)]

\* SCULPT_automasking_cache_init reads through a NULL brush: the brush given
\* at line 447, or the brush of the Paint settings at line 274 (the flood
\* fill of a stroke with a cache).
cache_init_reads_null(sculpt, br, s) ==
  /\ SCULPT_is_automasking_enabled(sculpt, s, br)
  /\ \/ br = NoBrush
     \/ /\ SCULPT_automasking_needs_factors_cache(sculpt, br)
        /\ SCULPT_is_automasking_mode_enabled(sculpt, br, BRUSH_AUTOMASKING_TOPOLOGY)
        /\ ~pmap_missing(s)
        /\ s.cache # NULL
        /\ BKE_paint_brush(sculpt.paint) = NoBrush

-----------------------------------------------------------------------------
(* The inputs: meshes, strokes and settings. *)

\* All undirected graphs on the vertices 0 .. n-1, as neighbour sets.
Graphs(n) ==
  LET pairs == {e \in (0 .. (n - 1)) \X (0 .. (n - 1)) : e[1] < e[2]}
  IN  { [v \in 0 .. (n - 1) |->
           {w \in 0 .. (n - 1) : <<v, w>> \in E \/ <<w, v>> \in E}]
        : E \in SUBSET pairs }

\* The chain 0 - 1 - ... - (n-1).
Chain(n) == [v \in 0 .. (n - 1) |-> {w \in 0 .. (n - 1) : w = v + 1 \/ v = w + 1}]

FaceSetIds == 1 .. MaxFaceSet
VertexFaceSets == (SUBSET FaceSetIds) \ {{}}

\* Meshes that sweep connectivity and geometry: any graph, any coordinates;
\* the last vertex lies on the mesh boundary and between face sets 1 and
\* MaxFaceSet; the stroke starts at vertex 0 in face set 1.
GeoMeshes ==
  { [totvert |-> MaxVerts, neighbors |-> g, co |-> c,
     no |-> [v \in 0 .. (MaxVerts - 1) |-> 1],
     boundary |-> [v \in 0 .. (MaxVerts - 1) |-> v = MaxVerts - 1],
     face_sets |-> [v \in 0 .. (MaxVerts - 1) |->
                      IF v = MaxVerts - 1 THEN {1, MaxFaceSet} ELSE {1}],
     active_vertex |-> 0, active_face_set |-> 1]
    : g \in Graphs(MaxVerts), c \in [0 .. (MaxVerts - 1) -> 0 .. MaxCoord] }

\* The mesh of the settings sweep: the chain with boundary ends, vertex 1
\* between two face sets.
DefaultMesh ==
  [totvert |-> MaxVerts, neighbors |-> Chain(MaxVerts),
   co |-> [v \in 0 .. (MaxVerts - 1) |-> v],
   no |-> [v \in 0 .. (MaxVerts - 1) |-> IF v % 2 = 0 THEN 1 ELSE -1],
   boundary |-> [v \in 0 .. (MaxVerts - 1) |-> v = 0 \/ v = MaxVerts - 1],
   face_sets |-> [v \in 0 .. (MaxVerts - 1) |->
                    IF v = 1 THEN {1, MaxFaceSet} ELSE {1}],
   active_vertex |-> 0, active_face_set |-> 1]

\* PBVH kind, vertex-to-polygon map, dynamic topology.
Environments ==
  { [pbvh_type |-> "PBVH_FACES", pmap |-> TRUE, dyntopo |-> FALSE],
    [pbvh_type |-> "PBVH_FACES", pmap |-> FALSE, dyntopo |-> FALSE],
    [pbvh_type |-> "PBVH_GRIDS", pmap |-> FALSE, dyntopo |-> FALSE],
    [pbvh_type |-> "PBVH_BMESH", pmap |-> FALSE, dyntopo |-> FALSE],
    [pbvh_type |-> "PBVH_BMESH", pmap |-> FALSE, dyntopo |-> TRUE] }

NormalEnvironment ==
  [pbvh_type |-> "PBVH_FACES", pmap |-> TRUE, dyntopo |-> FALSE]

\* automasking_cavity_factor values: 0, 1/100 (no saturation) and 1.
CavityFactors == {R0, Rat(1, 100), R1}

SceneFlagSets == {f \in SUBSET AllFlags : Cardinality(f) <= MaxSceneFlags}

Brushes(flagsets, steps, factors, shapes, tools) ==
  [automasking_flags : flagsets,
   automasking_boundary_edges_propagation_steps : steps,
   automasking_cavity_factor : factors,
   falloff_shape : shapes, sculpt_tool : tools]

StrokeCaches == {[radius |-> r] : r \in 1 .. MaxRadius}

\* What the reads through a NULL brush can yield.
JunkBrushes ==
  Brushes({{}}, {1}, CavityFactors, {"SPHERE", "TUBE"}, {"GRAB"})

\* The Sculpt settings.  For a brush stroke the stroke code hands
\* SCULPT_automasking_cache_init the brush of the Paint settings.
SculptSettings(flags, br) == [automasking_flags |-> flags, paint |-> [brush |-> br]]

\* The brushes the Paint settings can hold while a filter (no brush given,
\* no StrokeCache) runs.
FilterPaintBrushes ==
  {NoBrush} \cup Brushes({{}}, {1}, {Rat(1, 100)}, {"SPHERE"}, {"GRAB"})

boundary_idle == [pc |-> "idle"]

cavity_idle == [pc |-> "idle"]

\* The workers that evaluate the brush on the vertices of a stroke.
Workers == {"w1", "w2"}

calls_idle == [w \in Workers |-> [pc |-> "idle"]]

compose_idle == [pc |-> "idle"]

\* The default mesh with the attributes of one vertex v replaced, and the
\* stroke starting in face set a.
AttrMeshes ==
  { [DefaultMesh EXCEPT !.boundary[v] = b, !.face_sets[v] = f,
                        !.active_face_set = a]
    : v \in 0 .. (MaxVerts - 1), b \in BOOLEAN, f \in VertexFaceSets,
      a \in FaceSetIds }

\* Sweep of the settings on the default mesh.
InitSettings ==
  /\ \E env \in Environments, c \in {[radius |-> MaxRadius], NULL} :
       ss = DefaultMesh @@ env @@ [cache |-> c]
  /\ \/ /\ brush \in Brushes(SUBSET AllFlags, 1 .. MaxSteps, {Rat(1, 100)},
                             {"SPHERE", "TUBE"}, {"GRAB"})
        /\ \E f \in SceneFlagSets : sd = SculptSettings(f, brush)
     \/ /\ brush = NoBrush
        /\ ss.cache = NULL
        /\ \E f \in SceneFlagSets, p \in FilterPaintBrushes :
             sd = SculptSettings(f, p)

\* Sweep of the vertex attributes under a brush stroke.
InitAttributes ==
  /\ \E m \in AttrMeshes :
       ss = m @@ NormalEnvironment @@ [cache |-> [radius |-> MaxRadius]]
  /\ brush \in Brushes(SUBSET AllFlags, 1 .. MaxSteps, {Rat(1, 100)},
                       {"SPHERE"}, {"DRAW"})
  /\ sd = SculptSettings({}, brush)

\* Sweep of connectivity and geometry under a brush stroke.
InitMeshes ==
  /\ \E m \in GeoMeshes, c \in StrokeCaches :
       ss = m @@ NormalEnvironment @@ [cache |-> c]
  /\ brush \in Brushes(SUBSET AllFlags, 1 .. MaxSteps, CavityFactors \ {R0},
                       {"SPHERE"}, {"GRAB", "DRAW"})
  /\ sd = SculptSettings({}, brush)

InitStroke ==
  /\ automasking = NULL
  /\ phase = "Uninitialized"
  /\ result = NULL
  /\ edits = 0
  /\ bd = boundary_idle
  /\ cav = cavity_idle
  /\ calls = calls_idle
  /\ comp = compose_idle

Init == (InitSettings \/ InitAttributes) /\ InitStroke

InitMesh == InitMeshes /\ InitStroke

-----------------------------------------------------------------------------
(* The operations of one stroke. *)

\* SCULPT_automasking_cache_init at stroke start.  A read through a NULL
\* brush is undefined: it faults, or yields some value.
CacheInit ==
  /\ phase = "Uninitialized"
  /\ \/ /\ cache_init_reads_null(sd, brush, ss)
        /\ phase' = "Crashed"
        /\ automasking' = NULL
     \/ \E junk \in IF cache_init_reads_null(sd, brush, ss) THEN JunkBrushes
                                                            ELSE {NoBrush} :
          /\ automasking' = SCULPT_automasking_cache_init(sd, brush, ss, junk)
          /\ phase' = "Active"
  /\ UNCHANGED <<ss, sd, brush, result, edits, bd, cav, calls, comp>>

\* SCULPT_automasking_factor_get for one vertex, during the stroke.
FactorGet ==
  /\ phase = "Active"
  /\ \E vert \in Verts(ss) :
       result' = [vert |-> vert,
                  value |-> SCULPT_automasking_factor_get(automasking, ss, vert)]
  /\ UNCHANGED <<ss, sd, brush, automasking, phase, edits, bd, cav, calls, comp>>

\* SCULPT_automasking_cache_free, called with the pointer the stroke holds.
\* MEM_SAFE_FREE(automasking) clears the parameter, not the pointer of the
\* caller, which is left dangling.  A call with a dangling pointer reads
\* automasking->factor in freed memory and frees both blocks again, which is
\* undefined: it faults, or goes unnoticed.
CacheFree ==
  /\ phase \in {"Active", "Freed"}
  /\ IF automasking = NULL
       THEN /\ phase' = "Freed"
            /\ automasking' = NULL
       ELSE IF automasking = FREED
         THEN /\ phase' \in {"Freed", "Crashed"}
              /\ automasking' = FREED
         ELSE /\ phase' = "Freed"
              /\ automasking' = FREED
  /\ UNCHANGED <<ss, sd, brush, result, edits, bd, cav, calls, comp>>

Next == CacheInit \/ FactorGet \/ CacheFree

\* What the brush does to the mesh while the stroke runs: a vertex moves, a
\* vertex is painted into other face sets, the active face set changes.
MeshEdit ==
  /\ phase = "Active"
  /\ edits < MaxEdits
  /\ edits' = edits + 1
  /\ \/ \E v \in Verts(ss), x \in 0 .. MaxCoord :
          /\ x # ss.co[v]
          /\ ss' = [ss EXCEPT !.co[v] = x]
     \/ \E v \in Verts(ss), f \in VertexFaceSets :
          /\ f # ss.face_sets[v]
          /\ ss' = [ss EXCEPT !.face_sets[v] = f]
     \/ \E a \in FaceSetIds :
          /\ a # ss.active_face_set
          /\ ss' = [ss EXCEPT !.active_face_set = a]
  /\ UNCHANGED <<sd, brush, automasking, phase, result, bd, cav, calls, comp>>

\* A brush stroke on the default mesh.
InitEdited ==
  /\ \E c \in StrokeCaches : ss = DefaultMesh @@ NormalEnvironment @@ [cache |-> c]
  /\ brush \in Brushes(SUBSET AllFlags, 1 .. MaxSteps, {Rat(1, 100)},
                       {"SPHERE"}, {"GRAB"})
  /\ sd = SculptSettings({}, brush)
  /\ InitStroke

NextEdited == CacheInit \/ FactorGet \/ CacheFree \/ MeshEdit

\* The strokes that edit the mesh while the cache is in use.
SpecStroke == InitEdited /\ [][NextEdited]_vars

-----------------------------------------------------------------------------
(* SCULPT_boundary_automasking_init, step by step.  bd holds its arguments
   (mode, propagation_steps, automask_factor) and its locals.  The vertex
   loop of one propagation pass takes the vertices in ascending order, as
   the code does, or (order = "any") in whatever order a schedule that
   distributes the vertices of a pass over workers would produce. *)

\* The meshes of the boundary runs: any graph, any seed set S; the seeds are
\* the boundary vertices and the vertices between two face sets.
BoundaryMeshes ==
  { [DefaultMesh EXCEPT
       !.neighbors = g,
       !.boundary = [v \in 0 .. (MaxVerts - 1) |-> v \in S],
       !.face_sets = [v \in 0 .. (MaxVerts - 1) |->
                        IF v \in S THEN {1, MaxFaceSet} ELSE {1}]]
    : g \in Graphs(MaxVerts), S \in SUBSET (0 .. (MaxVerts - 1)) }

\* The chain 0 - 1 - 2 - 3 - 4 whose two ends are mesh boundary.
BoundaryChainMesh ==
  [totvert |-> 5, neighbors |-> Chain(5),
   co |-> [v \in 0 .. 4 |-> v],
   no |-> [v \in 0 .. 4 |-> 1],
   boundary |-> [v \in 0 .. 4 |-> v = 0 \/ v = 4],
   face_sets |-> [v \in 0 .. 4 |-> {1}],
   active_vertex |-> 0, active_face_set |-> 1]

\* The factor arrays handed to the boundary initializer: all 1.0, as after
\* the allocation in cache_init, or already attenuated (1, 1/2, 1/3, ...).
BoundaryFactorArrays(s) ==
  { [i \in Verts(s) |-> R1], [i \in Verts(s) |-> Rat(1, i + 1)] }

InitBoundary ==
  /\ \E m \in BoundaryMeshes \cup {BoundaryChainMesh} :
       ss = m @@ NormalEnvironment @@ [cache |-> NULL]
  /\ brush = NoBrush
  /\ sd = SculptSettings({}, brush)
  /\ automasking = NULL
  /\ phase = "Uninitialized"
  /\ result = NULL
  /\ edits = 0
  /\ cav = cavity_idle
  /\ calls = calls_idle
  /\ comp = compose_idle
  /\ \E mode \in {AUTOMASK_INIT_BOUNDARY_EDGES, AUTOMASK_INIT_BOUNDARY_FACE_SETS},
        steps \in 1 .. MaxSteps, order \in {"ascending", "any"} :
       \E f \in BoundaryFactorArrays(ss) :
         bd = [pc |-> "entry", mode |-> mode, propagation_steps |-> steps,
               order |-> order, automask_factor |-> f]

\* Lines 386-412: the pmap test, the allocation, the seeding and the loop
\* test before the first pass.
BoundaryEnter ==
  /\ bd.pc = "entry"
  /\ IF ~ss.pmap
       THEN bd' = [bd EXCEPT !.pc = "returned"]
       ELSE bd' = [pc |-> IF 0 < bd.propagation_steps THEN "propagate"
                                                     ELSE "falloff",
                   mode |-> bd.mode,
                   propagation_steps |-> bd.propagation_steps,
                   order |-> bd.order, automask_factor |-> bd.automask_factor,
                   edge_distance |-> boundary_seed(ss, bd.mode),
                   pass_start |-> boundary_seed(ss, bd.mode),
                   propagation_it |-> 0,
                   pending |-> Verts(ss)]
  /\ UNCHANGED <<ss, sd, brush, automasking, phase, result, edits, cav, calls, comp>>

\* Lines 414-423 for one vertex i of the current pass.
BoundaryVertex ==
  /\ bd.pc = "propagate"
  /\ \E i \in bd.pending :
       /\ bd.order = "ascending" => \A j \in bd.pending : i <= j
       /\ bd' = [bd EXCEPT
                   !.edge_distance =
                     boundary_vertex_update(ss, bd.edge_distance, i,
                                            bd.propagation_it),
                   !.pending = bd.pending \ {i}]
  /\ UNCHANGED <<ss, sd, brush, automasking, phase, result, edits, cav, calls, comp>>

\* Line 412: the end of a pass; the next pass starts or the loop ends.
BoundaryPassEnd ==
  /\ bd.pc = "propagate"
  /\ bd.pending = {}
  /\ IF bd.propagation_it + 1 < bd.propagation_steps
       THEN bd' = [bd EXCEPT !.propagation_it = bd.propagation_it + 1,
                             !.pending = Verts(ss),
                             !.pass_start = bd.edge_distance]
       ELSE bd' = [bd EXCEPT !.propagation_it = bd.propagation_it + 1,
                             !.pc = "falloff"]
  /\ UNCHANGED <<ss, sd, brush, automasking, phase, result, edits, cav, calls, comp>>

\* Lines 427-437: the falloff is multiplied into the factor array.
BoundaryFalloff ==
  /\ bd.pc = "falloff"
  /\ bd' = [bd EXCEPT
              !.automask_factor =
                boundary_falloff(ss, bd.edge_distance, bd.propagation_steps,
                                 bd.automask_factor),
              !.pc = "returned"]
  /\ UNCHANGED <<ss, sd, brush, automasking, phase, result, edits, cav, calls, comp>>

NextBoundary ==
  BoundaryEnter \/ BoundaryVertex \/ BoundaryPassEnd \/ BoundaryFalloff

\* The runs of the boundary initializer.
SpecBoundary == InitBoundary /\ [][NextBoundary]_vars

-----------------------------------------------------------------------------
(* SCULPT_automasking_cache_init for a stroke with Cavity enabled, with
   sculpt_cavity_automasking_init step by step.  automask_factor, the array
   of the caller, is automasking.factor.  cav holds the locals: the pointers
   factor and scratch, which name the caller's array or one of the two
   buffers "A" and "B" allocated at line 332-333, the allocated buffers
   themselves (heap), and the blur iteration. *)

\* The mesh that is one isolated vertex.
IsolatedVertexMesh ==
  [totvert |-> 1, neighbors |-> [v \in {0} |-> {}],
   co |-> [v \in {0} |-> 0], no |-> [v \in {0} |-> 1],
   boundary |-> [v \in {0} |-> FALSE], face_sets |-> [v \in {0} |-> {1}],
   active_vertex |-> 0, active_face_set |-> 1]

InitCavity ==
  /\ \/ /\ \E m \in GeoMeshes :
            ss = m @@ NormalEnvironment @@ [cache |-> [radius |-> MaxRadius]]
        /\ brush \in Brushes({{BRUSH_AUTOMASKING_CAVITY},
                              {BRUSH_AUTOMASKING_TOPOLOGY, BRUSH_AUTOMASKING_CAVITY}},
                             1 .. (MaxRounds + 1), {Rat(1, 100)},
                             {"SPHERE"}, {"DRAW"})
     \/ /\ ss = IsolatedVertexMesh @@ NormalEnvironment
                                    @@ [cache |-> [radius |-> MaxRadius]]
        /\ brush \in Brushes({{BRUSH_AUTOMASKING_CAVITY}},
                             1 .. (MaxRounds + 1), CavityFactors \ {R0},
                             {"SPHERE"}, {"DRAW"})
  /\ sd = SculptSettings({}, brush)
  /\ InitStroke

\* The array a pointer of the cavity initializer points to.
CavityDeref(ptr) ==
  IF ptr = "automask_factor" THEN automasking.factor ELSE cav.heap[ptr]

\* Lines 455-483: the cache is allocated; with a factor array, the array is
\* set to 1.0 and the Topology and Face Sets initializers run.
CavityCacheInitBegin ==
  /\ phase = "Uninitialized"
  /\ brush # NoBrush
  /\ IF ~SCULPT_is_automasking_enabled(sd, ss, brush)
       THEN automasking' = NULL /\ phase' = "Active" /\ cav' = cav
       ELSE LET am == [settings |-> SCULPT_automasking_cache_settings_update(
                                      ss, sd, brush, R0),
                       factor |-> NULL_ARRAY]
                f0 == [i \in Verts(ss) |-> R1]
                f1 == IF SCULPT_is_automasking_mode_enabled(
                           sd, brush, BRUSH_AUTOMASKING_TOPOLOGY)
                        THEN SCULPT_topology_automasking_init(sd, ss, f0, NoBrush)
                        ELSE f0
                f2 == IF SCULPT_is_automasking_mode_enabled(
                           sd, brush, BRUSH_AUTOMASKING_FACE_SETS)
                        THEN sculpt_face_sets_automasking_init(sd, ss, f1)
                        ELSE f1
            IN  IF ~SCULPT_automasking_needs_factors_cache(sd, brush)
                  THEN /\ automasking' = am
                       /\ phase' = "Active"
                       /\ cav' = cav
                  ELSE /\ automasking' = [am EXCEPT !.factor = f2]
                       /\ phase' = "Initializing"
                       /\ cav' = [pc |-> "entry",
                                  boundary_propagation_steps |->
                                    brush.automasking_boundary_edges_propagation_steps]
  /\ UNCHANGED <<ss, sd, brush, result, edits, bd, calls, comp>>

\* Lines 315-338: the tests, and the two buffers of 1.0 when a blur is asked.
CavityEnter ==
  /\ cav.pc = "entry"
  /\ IF \/ ~SCULPT_is_automasking_mode_enabled(sd, brush, BRUSH_AUTOMASKING_CAVITY)
        \/ ~SCULPT_is_automasking_enabled(sd, ss, BKE_paint_brush(sd.paint))
        \/ pmap_missing(ss)
       THEN cav' = [pc |-> "returned", heap |-> <<>>]
       ELSE IF cav.boundary_propagation_steps > 1
         THEN cav' = [pc |-> "fill",
                      boundary_propagation_steps |-> cav.boundary_propagation_steps,
                      factor |-> "A", scratch |-> "B", iteration |-> 0,
                      heap |-> [b \in {"A", "B"} |-> [i \in Verts(ss) |-> R1]]]
         ELSE cav' = [pc |-> "fill",
                      boundary_propagation_steps |-> cav.boundary_propagation_steps,
                      factor |-> "automask_factor", scratch |-> "uninitialized",
                      iteration |-> 0, heap |-> <<>>]
  /\ UNCHANGED <<ss, sd, brush, automasking, phase, result, edits, bd, calls, comp>>

\* Lines 340-342: factor[i] *= sculpt_automasking_cavity_factor(i).
CavityFill ==
  /\ cav.pc = "fill"
  /\ LET filled == [i \in Verts(ss) |->
                      RMul(CavityDeref(cav.factor)[i],
                           sculpt_automasking_cavity_factor(automasking, ss, i))]
     IN  IF cav.factor = "automask_factor"
           THEN /\ automasking' = [automasking EXCEPT !.factor = filled]
                /\ cav' = [cav EXCEPT !.pc = "blur"]
           ELSE /\ automasking' = automasking
                /\ cav' = [cav EXCEPT !.pc = "blur", !.heap[cav.factor] = filled]
  /\ UNCHANGED <<ss, sd, brush, phase, result, edits, bd, calls, comp>>

\* Variant: every blur iteration also multiplies the caller's array.
CavityBlurRound_multiplies_each_round ==
  /\ cav.pc = "blur"
  /\ cav.iteration < cav.boundary_propagation_steps - 1
  /\ LET bufs == cavity_blur_round(ss, [factor |-> cav.heap[cav.factor],
                                        scratch |-> cav.heap[cav.scratch]])
     IN  /\ cav' = [cav EXCEPT !.factor = cav.scratch,
                               !.scratch = cav.factor,
                               !.heap[cav.scratch] = bufs.factor,
                               !.iteration = cav.iteration + 1]
         /\ automasking' =
              [automasking EXCEPT
                 !.factor = [i \in Verts(ss) |->
                               RMul(automasking.factor[i], bufs.factor[i])]]
  /\ UNCHANGED <<ss, sd, brush, phase, result, edits, bd, calls, comp>>

\* Lines 345-365: one blur iteration: the pointers are swapped, then every
\* factor[i] becomes (mean of scratch over the neighbours + factor[i]) * 0.5.
CavityBlurRound ==
  /\ cav.pc = "blur"
  /\ cav.iteration < cav.boundary_propagation_steps - 1
  /\ LET bufs == cavity_blur_round(ss, [factor |-> cav.heap[cav.factor],
                                        scratch |-> cav.heap[cav.scratch]])
     IN  cav' = [cav EXCEPT !.factor = cav.scratch,
                            !.scratch = cav.factor,
                            !.heap[cav.scratch] = bufs.factor,
                            !.iteration = cav.iteration + 1]
  /\ UNCHANGED <<ss, sd, brush, automasking, phase, result, edits, bd, calls, comp>>

\* Lines 367-376: after a blur the caller's array is multiplied by the
\* buffer factor points to, and the two buffers are freed.
CavityFinish ==
  /\ cav.pc = "blur"
  /\ ~(cav.iteration < cav.boundary_propagation_steps - 1)
  /\ IF cav.boundary_propagation_steps > 1
       THEN /\ automasking' =
                 [automasking EXCEPT
                    !.factor = [i \in Verts(ss) |->
                                  RMul(automasking.factor[i],
                                       cav.heap[cav.factor][i])]]
            /\ cav' = [cav EXCEPT !.pc = "returned", !.heap = <<>>,
                                  !.factor = "NULL", !.scratch = "NULL"]
       ELSE /\ automasking' = automasking
            /\ cav' = [cav EXCEPT !.pc = "returned"]
  /\ UNCHANGED <<ss, sd, brush, phase, result, edits, bd, calls, comp>>

\* Lines 491-502: the boundary initializers, when enabled, and the return.
CavityCacheInitEnd ==
  /\ phase = "Initializing"
  /\ cav.pc = "returned"
  /\ LET steps == brush.automasking_boundary_edges_propagation_steps
         f3 == automasking.factor
         f4 == IF SCULPT_is_automasking_mode_enabled(
                    sd, brush, BRUSH_AUTOMASKING_BOUNDARY_EDGES)
                 THEN SCULPT_boundary_automasking_init(
                        ss, AUTOMASK_INIT_BOUNDARY_EDGES, steps, f3)
                 ELSE f3
         f5 == IF SCULPT_is_automasking_mode_enabled(
                    sd, brush, BRUSH_AUTOMASKING_BOUNDARY_FACE_SETS)
                 THEN SCULPT_boundary_automasking_init(
                        ss, AUTOMASK_INIT_BOUNDARY_FACE_SETS, steps, f4)
                 ELSE f4
     IN  automasking' = [automasking EXCEPT !.factor = f5]
  /\ phase' = "Active"
  /\ UNCHANGED <<ss, sd, brush, result, edits, bd, cav, calls, comp>>

NextCavity ==
  \/ CavityCacheInitBegin
  \/ CavityEnter
  \/ CavityFill
  \/ CavityBlurRound
  \/ CavityFinish
  \/ CavityCacheInitEnd
  \/ FactorGet

\* The strokes with Cavity enabled.
SpecCavity == InitCavity /\ [][NextCavity]_vars

-----------------------------------------------------------------------------
(* SCULPT_automasking_factor_get called by several workers at once, line by
   line.  calls[w] is the call of worker w: its position, its argument vert
   and, once it has returned, the value returned. *)

\* A stroke with a brush on the default mesh.
InitWorkers == InitEdited

\* A worker calls SCULPT_automasking_factor_get(automasking, ss, vert);
\* overlap records that another call was in progress at that moment.
WorkerCall ==
  /\ phase = "Active"
  /\ \E w \in Workers, vert \in Verts(ss) :
       /\ calls[w].pc \in {"idle", "returned"}
       /\ calls' = [calls EXCEPT
                      ![w] = [pc |-> "line171", vert |-> vert,
                              overlap |-> \E o \in Workers \ {w} :
                                            calls[o].pc \notin {"idle", "returned"}]]
  /\ UNCHANGED <<ss, sd, brush, automasking, phase, result, edits, bd, cav, comp>>

\* The value a call returns with.
WorkerReturn(call, value) ==
  [pc |-> "returned", vert |-> call.vert, overlap |-> call.overlap,
   value |-> value]

\* The next test of a call (lines 171, 177, 181, 187, 193, 199), with the
\* return it leads to.
WorkerNext(call) ==
  LET vert == call.vert
      goto(line) == [call EXCEPT !.pc = line]
  IN  CASE call.pc = "line171" ->
             IF automasking = NULL THEN WorkerReturn(call, R1)
                                   ELSE goto("line177")
        [] call.pc = "line177" ->
             IF automasking.factor # NULL_ARRAY
               THEN WorkerReturn(call, automasking.factor[vert])
               ELSE goto("line181")
        [] call.pc = "line181" ->
             IF /\ BRUSH_AUTOMASKING_FACE_SETS \in automasking.settings.flags
                /\ ~SCULPT_vertex_has_face_set(
                      ss, vert, automasking.settings.initial_face_set)
               THEN WorkerReturn(call, R0)
               ELSE goto("line187")
        [] call.pc = "line187" ->
             IF /\ BRUSH_AUTOMASKING_BOUNDARY_EDGES \in automasking.settings.flags
                /\ SCULPT_vertex_is_boundary(ss, vert)
               THEN WorkerReturn(call, R0)
               ELSE goto("line193")
        [] call.pc = "line193" ->
             IF /\ BRUSH_AUTOMASKING_BOUNDARY_FACE_SETS \in automasking.settings.flags
                /\ ~SCULPT_vertex_has_unique_face_set(ss, vert)
               THEN WorkerReturn(call, R0)
               ELSE goto("line199")
        [] call.pc = "line199" ->
             IF BRUSH_AUTOMASKING_CAVITY \in automasking.settings.flags
               THEN WorkerReturn(
                      call, sculpt_automasking_cavity_factor(automasking, ss, vert))
               ELSE WorkerReturn(call, R1)

\* Variant: a call that computed its value on demand stores it in a factor
\* array, for the next calls to find.
WorkerStep_memoizes ==
  /\ \E w \in Workers :
       /\ calls[w].pc \notin {"idle", "returned"}
       /\ calls' = [calls EXCEPT ![w] = WorkerNext(calls[w])]
       /\ IF calls'[w].pc = "returned" /\ calls[w].pc \notin {"line171", "line177"}
            THEN automasking' =
                   [automasking EXCEPT
                      !.factor = [i \in Verts(ss) |->
                                    IF i = calls[w].vert THEN calls'[w].value
                                                         ELSE R1]]
            ELSE automasking' = automasking
  /\ UNCHANGED <<ss, sd, brush, phase, result, edits, bd, cav, comp>>

\* One step of the call of one worker.
WorkerStep ==
  /\ \E w \in Workers :
       /\ calls[w].pc \notin {"idle", "returned"}
       /\ calls' = [calls EXCEPT ![w] = WorkerNext(calls[w])]
  /\ UNCHANGED <<ss, sd, brush, automasking, phase, result, edits, bd, cav, comp>>

NextWorkers == CacheInit \/ WorkerCall \/ WorkerStep

\* The strokes whose workers query the cache concurrently.
SpecWorkers == InitWorkers /\ [][NextWorkers]_vars

-----------------------------------------------------------------------------
(* The whole-mesh initializers called one at a time on one factor array, in
   any order and on any starting array.  comp holds the array
   (automask_factor), the array the first call received (start) and the
   initializers that have returned (done).  The settings of the cache are
   those SCULPT_automasking_cache_settings_update stored. *)

\* Coordinates of the vertices: spread out, folded, all in one point.
ComposeCoords ==
  { [v \in 0 .. (MaxVerts - 1) |-> v % (MaxCoord + 1)],
    [v \in 0 .. (MaxVerts - 1) |-> (2 * v) % (MaxCoord + 1)],
    [v \in 0 .. (MaxVerts - 1) |-> 0] }

\* Any graph on the vertices of the default mesh, with vertex 0 alone on the
\* mesh boundary; the stroke starts at vertex 0, in the face set every
\* vertex carries or in the face set only vertex 1 carries.
ComposeMeshes ==
  { [DefaultMesh EXCEPT !.neighbors = g, !.co = c, !.active_face_set = a,
                        !.boundary = [v \in 0 .. (MaxVerts - 1) |-> v = 0]]
    : g \in Graphs(MaxVerts), c \in ComposeCoords, a \in {1, MaxFaceSet} }

\* The arrays the first initializer receives: all 1.0, or 1/3, 1/4, ...
ComposeArrays(s) ==
  { [i \in Verts(s) |-> R1], [i \in Verts(s) |-> Rat(1, i + 3)] }

InitCompose ==
  /\ \E m \in ComposeMeshes :
       ss = m @@ NormalEnvironment @@ [cache |-> [radius |-> MaxRadius]]
  /\ brush \in Brushes({AllFlags \ {BRUSH_AUTOMASKING_CAVITY_INVERT}},
                       1 .. MaxSteps, {Rat(1, 100)}, {"SPHERE"}, {"GRAB", "DRAW"})
  /\ sd = SculptSettings({}, brush)
  /\ automasking = [settings |-> SCULPT_automasking_cache_settings_update(
                                   ss, sd, brush, R0),
                    factor |-> NULL_ARRAY]
  /\ phase = "Initializing"
  /\ result = NULL
  /\ edits = 0
  /\ bd = boundary_idle
  /\ cav = cavity_idle
  /\ calls = calls_idle
  /\ \E f \in ComposeArrays(ss) :
       comp = [pc |-> "ready", start |-> f, automask_factor |-> f, done |-> {}]

\* SCULPT_topology_automasking_init(sd, ob, automask_factor).
CallTopologyInit ==
  /\ comp.pc = "ready"
  /\ BRUSH_AUTOMASKING_TOPOLOGY \notin comp.done
  /\ comp' = [comp EXCEPT
                !.automask_factor =
                  SCULPT_topology_automasking_init(sd, ss, comp.automask_factor, NoBrush),
                !.done = comp.done \cup {BRUSH_AUTOMASKING_TOPOLOGY}]
  /\ UNCHANGED <<ss, sd, brush, automasking, phase, result, edits, bd, cav, calls>>

\* sculpt_face_sets_automasking_init(sd, ob, automask_factor).
CallFaceSetsInit ==
  /\ comp.pc = "ready"
  /\ BRUSH_AUTOMASKING_FACE_SETS \notin comp.done
  /\ comp' = [comp EXCEPT
                !.automask_factor =
                  sculpt_face_sets_automasking_init(sd, ss, comp.automask_factor),
                !.done = comp.done \cup {BRUSH_AUTOMASKING_FACE_SETS}]
  /\ UNCHANGED <<ss, sd, brush, automasking, phase, result, edits, bd, cav, calls>>

\* sculpt_cavity_automasking_init(sd, ob, automasking, automask_factor, steps).
CallCavityInit ==
  /\ comp.pc = "ready"
  /\ BRUSH_AUTOMASKING_CAVITY \notin comp.done
  /\ comp' = [comp EXCEPT
                !.automask_factor =
                  sculpt_cavity_automasking_init(
                    sd, ss, automasking, comp.automask_factor,
                    brush.automasking_boundary_edges_propagation_steps),
                !.done = comp.done \cup {BRUSH_AUTOMASKING_CAVITY}]
  /\ UNCHANGED <<ss, sd, brush, automasking, phase, result, edits, bd, cav, calls>>

\* SCULPT_boundary_automasking_init(ob, AUTOMASK_INIT_BOUNDARY_EDGES, ...).
CallBoundaryEdgesInit ==
  /\ comp.pc = "ready"
  /\ BRUSH_AUTOMASKING_BOUNDARY_EDGES \notin comp.done
  /\ comp' = [comp EXCEPT
                !.automask_factor =
                  SCULPT_boundary_automasking_init(
                    ss, AUTOMASK_INIT_BOUNDARY_EDGES,
                    brush.automasking_boundary_edges_propagation_steps,
                    comp.automask_factor),
                !.done = comp.done \cup {BRUSH_AUTOMASKING_BOUNDARY_EDGES}]
  /\ UNCHANGED <<ss, sd, brush, automasking, phase, result, edits, bd, cav, calls>>

\* SCULPT_boundary_automasking_init(ob, AUTOMASK_INIT_BOUNDARY_FACE_SETS, ...).
CallBoundaryFaceSetsInit ==
  /\ comp.pc = "ready"
  /\ BRUSH_AUTOMASKING_BOUNDARY_FACE_SETS \notin comp.done
  /\ comp' = [comp EXCEPT
                !.automask_factor =
                  SCULPT_boundary_automasking_init(
                    ss, AUTOMASK_INIT_BOUNDARY_FACE_SETS,
                    brush.automasking_boundary_edges_propagation_steps,
                    comp.automask_factor),
                !.done = comp.done \cup {BRUSH_AUTOMASKING_BOUNDARY_FACE_SETS}]
  /\ UNCHANGED <<ss, sd, brush, automasking, phase, result, edits, bd, cav, calls>>

NextCompose ==
  \/ CallTopologyInit
  \/ CallFaceSetsInit
  \/ CallCavityInit
  \/ CallBoundaryEdgesInit
  \/ CallBoundaryFaceSetsInit

\* The initializers in every order.
SpecCompose == InitCompose /\ [][NextCompose]_vars

-----------------------------------------------------------------------------
(* Strokes with Face Sets enabled, on the default mesh as it is and with all
   its vertices moved into one point, started in either face set; the brush
   edits the mesh while the stroke runs. *)

FaceSetsMeshes ==
  { [DefaultMesh EXCEPT !.co = c, !.active_face_set = a]
    : c \in { [v \in 0 .. (MaxVerts - 1) |-> v], [v \in 0 .. (MaxVerts - 1) |-> 0] },
      a \in FaceSetIds }

InitFaceSets ==
  /\ \E m \in FaceSetsMeshes, c \in StrokeCaches :
       ss = m @@ NormalEnvironment @@ [cache |-> c]
  /\ brush \in Brushes({{BRUSH_AUTOMASKING_FACE_SETS} \cup x :
                          x \in SUBSET {BRUSH_AUTOMASKING_TOPOLOGY,
                                        BRUSH_AUTOMASKING_CAVITY,
                                        BRUSH_AUTOMASKING_BOUNDARY_EDGES}},
                       1 .. MaxSteps, {Rat(1, 100)}, {"SPHERE"}, {"DRAW"})
  /\ sd = SculptSettings({}, brush)
  /\ InitStroke

\* The strokes with Face Sets enabled.
SpecFaceSets == InitFaceSets /\ [][NextEdited]_vars

\* The strokes over the settings and the vertex attributes.
Spec == Init /\ [][Next]_vars

\* The strokes over the meshes.
SpecMesh == InitMesh /\ [][Next]_vars

-----------------------------------------------------------------------------
(* Properties. *)

\* The flags of the scene and of the brush, when there is one.
SceneFlags == sd.automasking_flags
BrushFlags == IF brush = NoBrush THEN {} ELSE brush.automasking_flags
EffectiveFlags == SceneFlags \cup BrushFlags

\* The brush's propagation steps; without a brush they count as 1.
PropagationSteps ==
  IF brush = NoBrush THEN 1
  ELSE brush.automasking_boundary_edges_propagation_steps

CacheReturned == phase = "Active"
HasCache == CacheReturned /\ automasking # NULL
HasArray == HasCache /\ automasking.factor # NULL_ARRAY
Queried == CacheReturned /\ result # NULL

\* C2: with no flag set in the scene flags nor in the brush flags,
\* cache_init returns null (nothing is allocated) and every factor_get on
\* that null cache returns exactly 1.0.
C2_DisabledCacheIdentity ==
  (CacheReturned /\ SceneFlags = {} /\ BrushFlags = {})
    => /\ automasking = NULL
       /\ (result # NULL => result.value = R1)

C2_Witness ==
  /\ Queried /\ SceneFlags = {} /\ BrushFlags = {}
  /\ brush # NoBrush
  /\ automasking = NULL /\ result.value = R1

\* C3 as stated: cache_init returns null exactly when none of the six bits
\* Topology, FaceSets, BoundaryEdges, BoundaryFaceSets, Cavity, CavityInverted
\* is set in the effective flags.
C3_NullIffNoBitOfSix ==
  CacheReturned => (automasking = NULL <=> EffectiveFlags \cap AllFlags = {})

\* C3 amended: cache_init returns null exactly when a brush is given and the
\* stroke uses dynamic topology, or none of the five bits Topology, FaceSets,
\* BoundaryEdges, BoundaryFaceSets, Cavity is set in the effective flags
\* (CavityInverted alone enables nothing).  In every other case with a brush
\* given it returns a cache; with no brush given it allocates the cache and
\* reads through the null brush (line 447), so the call faults or returns
\* the cache.
C3_NullIffNoStrategy ==
  [][CacheInit =>
       IF \/ brush # NoBrush /\ ss.dyntopo
          \/ EffectiveFlags \cap
               {"TOPOLOGY", "FACE_SETS", "BOUNDARY_EDGES", "BOUNDARY_FACE_SETS",
                "CAVITY"} = {}
         THEN phase' = "Active" /\ automasking' = NULL
         ELSE IF brush # NoBrush
           THEN phase' = "Active" /\ automasking' # NULL
           ELSE \/ phase' = "Crashed"
                \/ phase' = "Active" /\ automasking' # NULL]_vars

C3_Witness ==
  /\ CacheReturned /\ automasking = NULL
  /\ EffectiveFlags = {"CAVITY_INVERT"}
  /\ ~ss.dyntopo

\* The value the on-demand rules of C5 give vertex v.
OnDemandRuleValue(v) ==
  LET flags == automasking.settings.flags
  IN  CASE "FACE_SETS" \in flags
             /\ automasking.settings.initial_face_set \notin ss.face_sets[v] -> R0
        [] "BOUNDARY_EDGES" \in flags /\ ss.boundary[v] -> R0
        [] "BOUNDARY_FACE_SETS" \in flags /\ Cardinality(ss.face_sets[v]) > 1 -> R0
        [] "CAVITY" \in flags -> sculpt_automasking_cavity_factor(automasking, ss, v)
        [] OTHER -> R1

\* C5: without a factor array factor_get returns at the first rule that
\* applies, in this order: FaceSets and the vertex lacks initial_face_set:
\* 0; BoundaryEdges and a boundary vertex: 0; BoundaryFaceSets and no
\* unique face set: 0; Cavity: the cavity strategy value; otherwise 1.
C5_OnDemandOrder ==
  (Queried /\ HasCache /\ ~HasArray)
    => result.value = OnDemandRuleValue(result.vert)

\* The Cavity rule is reached behind a Boundary Face Sets rule that applies.
C5_Witness ==
  /\ Queried /\ HasCache /\ ~HasArray
  /\ {"BOUNDARY_FACE_SETS", "CAVITY"} \subseteq automasking.settings.flags
  /\ Cardinality(ss.face_sets[result.vert]) > 1
  /\ ~("BOUNDARY_EDGES" \in automasking.settings.flags /\ ss.boundary[result.vert])
  /\ ~("FACE_SETS" \in automasking.settings.flags
       /\ automasking.settings.initial_face_set \notin ss.face_sets[result.vert])
  /\ result.value = R0

\* C6 as stated: the array is present exactly when Topology is enabled or
\* some strategy is enabled together with boundary_propagation_steps # 1.
C6_ArrayIffAnyStrategyPropagates ==
  HasCache =>
    (automasking.factor # NULL_ARRAY
       <=> \/ "TOPOLOGY" \in EffectiveFlags
           \/ /\ EffectiveFlags \cap
                   {"TOPOLOGY", "FACE_SETS", "BOUNDARY_EDGES",
                    "BOUNDARY_FACE_SETS", "CAVITY"} # {}
              /\ PropagationSteps # 1)

\* C6 amended: after cache_init returns a cache, the array is present
\* exactly when Topology is enabled or at least one of Cavity, BoundaryEdges,
\* BoundaryFaceSets is enabled together with boundary_propagation_steps # 1
\* (FaceSets does not count); otherwise the array is absent.
C6_ArrayIffPropagatingStrategy ==
  HasCache =>
    (automasking.factor # NULL_ARRAY
       <=> \/ "TOPOLOGY" \in EffectiveFlags
           \/ /\ EffectiveFlags \cap
                   {"BOUNDARY_EDGES", "BOUNDARY_FACE_SETS", "CAVITY"} # {}
              /\ PropagationSteps # 1)

C6_Witness ==
  /\ HasCache /\ ~HasArray
  /\ EffectiveFlags = {"FACE_SETS"}
  /\ PropagationSteps # 1

\* C1: every value factor_get returns after cache_init lies in [0, 1], from
\* the factor array and from on-demand evaluation alike.
C1_FactorInUnitRange ==
  Queried => InUnitRange(result.value)

\* The all-pass array, and what each whole-mesh initializer makes of it.
Ones == [i \in Verts(ss) |-> R1]
TopologyGate == SCULPT_topology_automasking_init(sd, ss, Ones, NoBrush)
FaceSetsContribution == sculpt_face_sets_automasking_init(sd, ss, Ones)
CavityContribution ==
  sculpt_cavity_automasking_init(sd, ss, automasking, Ones, PropagationSteps)
BoundaryEdgesContribution ==
  SCULPT_boundary_automasking_init(ss, AUTOMASK_INIT_BOUNDARY_EDGES, PropagationSteps, Ones)
BoundaryFaceSetsContribution ==
  SCULPT_boundary_automasking_init(ss, AUTOMASK_INIT_BOUNDARY_FACE_SETS, PropagationSteps, Ones)

\* The product of the contributions of the enabled strategies other than
\* Topology, for vertex v.
OtherStrategiesProduct(v) ==
  LET one(flag, contribution) ==
        IF flag \in EffectiveFlags THEN contribution[v] ELSE R1
  IN  RMul(RMul(RMul(one("FACE_SETS", FaceSetsContribution),
                     one("CAVITY", CavityContribution)),
                one("BOUNDARY_EDGES", BoundaryEdgesContribution)),
           one("BOUNDARY_FACE_SETS", BoundaryFaceSetsContribution))

\* C7: on the array path with Topology enabled, a vertex the flood fill did
\* not reach ends with factor 0.0 and a vertex it reached ends with exactly
\* the product of the other enabled strategies' contributions.
C7_TopologyGatesProduct ==
  (HasArray /\ "TOPOLOGY" \in EffectiveFlags)
    => \A v \in Verts(ss) :
         automasking.factor[v] =
           IF TopologyGate[v] = R1 THEN OtherStrategiesProduct(v) ELSE R0

\* The radius constraint of the flood fill is in force.
RadiusConstrained ==
  /\ brush # NoBrush /\ ss.cache # NULL
  /\ brush.falloff_shape # "TUBE" /\ brush.sculpt_tool = "GRAB"

WithinRadius(v) ==
  Abs(ss.co[v] - ss.co[ss.active_vertex]) <= ss.cache.radius

RECURSIVE GrowReachable(_)
GrowReachable(S) ==
  LET more == {w \in Verts(ss) \ S :
                 WithinRadius(w) /\ \E u \in S : w \in ss.neighbors[u]}
  IN  IF more = {} THEN S ELSE GrowReachable(S \cup more)

\* The vertices joined to the seed by a path of edges whose vertices all
\* lie within the radius of the origin.
ReachableWithinRadius == GrowReachable({ss.active_vertex})

\* C8: after the Topology initializer ran under a radius constraint, every
\* vertex reachable from the seed through vertices within R has factor 1.0
\* and every vertex outside that reachable set has factor 0.0.  (Stated for
\* the vertices other than the seed.)
C8_FloodFillContainment ==
  (HasArray /\ RadiusConstrained
     /\ ~(ss.pbvh_type = "PBVH_FACES" /\ ~ss.pmap)
     /\ EffectiveFlags \cap {"TOPOLOGY", "FACE_SETS", "BOUNDARY_EDGES",
                             "BOUNDARY_FACE_SETS", "CAVITY"} = {"TOPOLOGY"})
    => \A v \in Verts(ss) \ {ss.active_vertex} :
         automasking.factor[v] =
           IF v \in ReachableWithinRadius THEN R1 ELSE R0

\* What the on-demand rules would give vertex v on the mesh as it is now.
OnDemandNow(v) ==
  SCULPT_automasking_factor_get([automasking EXCEPT !.factor = NULL_ARRAY], ss, v)

\* C4: with a factor array, a factor_get step returns the stored factor[v],
\* whatever the mesh looks like at the time of the query, and leaves the
\* cache (array and settings) and the mesh unchanged.
C4_ArrayLookupOnly ==
  [][(HasArray /\ FactorGet)
       => /\ result'.value = automasking.factor[result'.vert]
          /\ automasking' = automasking
          /\ ss' = ss]_vars

\* A query answered from the array after a mesh edit, where evaluating the
\* rules on the edited mesh would give another value.
C4_Witness ==
  /\ Queried /\ HasArray /\ edits > 0
  /\ result.value = automasking.factor[result.vert]
  /\ result.value # OnDemandNow(result.vert)

\* The seeds of the running boundary initializer.
BoundarySeeds ==
  IF bd.mode = AUTOMASK_INIT_BOUNDARY_EDGES
    THEN {v \in Verts(ss) : ss.boundary[v]}
    ELSE {v \in Verts(ss) : Cardinality(ss.face_sets[v]) > 1}

RECURSIVE GraphDistance(_, _, _)
\* The length in edges of a shortest path from v to the seeds, or INF when
\* there is none; Ball is the set of vertices within k edges of the seeds.
GraphDistance(v, Ball, k) ==
  IF v \in Ball THEN k
  ELSE LET next == Ball \cup {w \in Verts(ss) : \E u \in Ball : w \in ss.neighbors[u]}
       IN  IF next = Ball THEN EDGE_DISTANCE_INF
           ELSE GraphDistance(v, next, k + 1)

PropagationOver == bd.pc \in {"falloff", "returned"} /\ ss.pmap

\* C9: after the propagation loop with propagation_steps = N, edge_distance[v]
\* is the length of a shortest path from v to the nearest seed when that is
\* at most N, and INF when no seed is within N edges; the seeds are the
\* boundary vertices, or the vertices without a unique face set.
C9_EdgeDistanceIsBFS ==
  PropagationOver =>
    \A v \in Verts(ss) :
      LET d == GraphDistance(v, BoundarySeeds, 0)
      IN  bd.edge_distance[v] =
            IF d # EDGE_DISTANCE_INF /\ d <= bd.propagation_steps
              THEN d ELSE EDGE_DISTANCE_INF

\* The loop is over: a vertex N edges from the nearest seed got distance N,
\* and a vertex that has a seed further than N edges away stayed at INF.
C9_Witness ==
  /\ PropagationOver /\ bd.order = "ascending"
  /\ \E v \in Verts(ss) :
       /\ bd.edge_distance[v] = bd.propagation_steps
       /\ GraphDistance(v, BoundarySeeds, 0) = bd.propagation_steps
  /\ \E v \in Verts(ss) :
       /\ bd.edge_distance[v] = EDGE_DISTANCE_INF
       /\ GraphDistance(v, BoundarySeeds, 0) > bd.propagation_steps

\* One pass computed from the array as it was when the pass began.
DoubleBufferedPass(before, propagation_it) ==
  [v \in Verts(ss) |->
     IF before[v] # EDGE_DISTANCE_INF THEN before[v]
     ELSE IF \E ni \in ss.neighbors[v] : before[ni] = propagation_it
       THEN propagation_it + 1
       ELSE EDGE_DISTANCE_INF]

\* C10: within pass k the in-place update behaves like a double-buffered
\* pass.  Whatever the order of the vertices, a processed vertex holds the
\* value computed from the array as it was when the pass began and an
\* unprocessed one still holds that array's value; so the array after the
\* pass does not depend on the order.
C10_PassIsOrderIndependent ==
  bd.pc = "propagate" =>
    \A v \in Verts(ss) :
      bd.edge_distance[v] =
        IF v \in bd.pending
          THEN bd.pass_start[v]
          ELSE DoubleBufferedPass(bd.pass_start, bd.propagation_it)[v]

\* A pass taken in a free order is over, and it gave two adjacent vertices
\* the new distance k+1: each was at INF and saw the other being updated.
C10_Witness ==
  /\ bd.pc = "propagate" /\ bd.order = "any" /\ bd.pending = {}
  /\ \E u, v \in Verts(ss) :
       /\ u < v /\ v \in ss.neighbors[u]
       /\ bd.pass_start[u] = EDGE_DISTANCE_INF
       /\ bd.pass_start[v] = EDGE_DISTANCE_INF
       /\ bd.edge_distance[u] = bd.propagation_it + 1
       /\ bd.edge_distance[v] = bd.propagation_it + 1

\* 1 - (1 - d/N)^2, written as the quotient (2dN - d^2) / N^2.
EdgeFalloffKept(d, N) == Rat(2 * d * N - d * d, N * N)

\* The chain 0-1-2-3-4 is being processed with boundary ends as the seeds,
\* N = 2 and all factors 1.
BoundaryChainCase ==
  /\ ss.totvert = 5
  /\ bd.mode = AUTOMASK_INIT_BOUNDARY_EDGES
  /\ bd.propagation_steps = 2

\* C11: the boundary initializer multiplies factor[v] by 1 - (1 - d/N)^2 for
\* every vertex with edge_distance d # INF (a seed gets 0, a vertex at d = N
\* keeps its factor) and leaves factor[v] unchanged for every vertex at INF;
\* on the chain 0-1-2-3-4 with boundary vertices 0 and 4, N = 2 and all
\* factors 1 the result is 0, 0.75, 1, 0.75, 0.
C11_BoundaryFalloff ==
  [][BoundaryFalloff =>
       LET d == bd.edge_distance
           N == bd.propagation_steps
           before == bd.automask_factor
           after == bd'.automask_factor
       IN  /\ \A v \in Verts(ss) :
                /\ d[v] = EDGE_DISTANCE_INF => after[v] = before[v]
                /\ d[v] # EDGE_DISTANCE_INF =>
                     after[v] = RMul(before[v], EdgeFalloffKept(d[v], N))
                /\ d[v] = 0 => after[v] = R0
                /\ d[v] = N => after[v] = before[v]
           /\ (BoundaryChainCase /\ before = [i \in Verts(ss) |-> R1]) =>
                after = [i \in Verts(ss) |->
                           IF i \in {0, 4} THEN R0
                           ELSE IF i \in {1, 3} THEN Rat(3, 4) ELSE R1]]_vars

\* The initializer returned on the chain 0-1-2-3-4 with 0, 0.75, 1, 0.75, 0.
C11_Witness ==
  /\ bd.pc = "returned" /\ BoundaryChainCase
  /\ bd.automask_factor = (0 :> R0 @@ 1 :> Rat(3, 4) @@ 2 :> R1 @@ 3 :> Rat(3, 4) @@ 4 :> R0)

\* The vertices that got a distance (0 .. N) from the propagation.
Reached == {v \in Verts(ss) : bd.edge_distance[v] # EDGE_DISTANCE_INF}

\* C12: with BoundaryEdges as the only strategy on an array initialised to
\* 1.0 and propagation_steps = N, the factor is a non-decreasing function of
\* the edge distance: for two vertices u, v with distances
\* edge_distance[u] <= edge_distance[v] <= N, factor[u] <= factor[v].
C12_FalloffMonotone ==
  [][(/\ BoundaryFalloff
      /\ bd.mode = AUTOMASK_INIT_BOUNDARY_EDGES
      /\ bd.automask_factor = [i \in Verts(ss) |-> R1])
       => \A u, v \in Reached :
            bd.edge_distance[u] <= bd.edge_distance[v]
              => /\ bd.edge_distance[v] <= bd.propagation_steps
                 /\ RLe(bd'.automask_factor[u], bd'.automask_factor[v])]_vars

\* The initializer returned with vertices at the distances 0, 1 and 2 and
\* the factors 0 < 3/4 < 1.
C12_Witness ==
  /\ bd.pc = "returned" /\ bd.mode = AUTOMASK_INIT_BOUNDARY_EDGES
  /\ bd.propagation_steps >= 2
  /\ \E u, v, w \in Reached :
       /\ bd.edge_distance[u] = 0 /\ bd.edge_distance[v] = 1
       /\ bd.edge_distance[w] = bd.propagation_steps
       /\ bd.automask_factor[u] = R0
       /\ RLt(R0, bd.automask_factor[v])
       /\ RLt(bd.automask_factor[v], bd.automask_factor[w])
       /\ bd.automask_factor[w] = R1

\* a == b on floats: false as soon as one side is NaN.
REq(a, b) == ~IsNaN(a) /\ ~IsNaN(b) /\ a = b

\* The last query was answered by the cavity rule of the on-demand path.
CavityQueried ==
  /\ Queried /\ HasCache /\ ~HasArray
  /\ LET flags == automasking.settings.flags
         v == result.vert
     IN  /\ BRUSH_AUTOMASKING_CAVITY \in flags
         /\ ~(BRUSH_AUTOMASKING_FACE_SETS \in flags
               /\ automasking.settings.initial_face_set \notin ss.face_sets[v])
         /\ ~(BRUSH_AUTOMASKING_BOUNDARY_EDGES \in flags /\ ss.boundary[v])
         /\ ~(BRUSH_AUTOMASKING_BOUNDARY_FACE_SETS \in flags
               /\ Cardinality(ss.face_sets[v]) > 1)

\* The cavity strategy value of vertex v under the cache's settings, with the
\* CavityInverted flag forced on or off.
CavityValue(v, inverted) ==
  sculpt_automasking_cavity_factor(
    [automasking EXCEPT
       !.settings.flags =
         IF inverted THEN @ \cup {BRUSH_AUTOMASKING_CAVITY_INVERT}
                     ELSE @ \ {BRUSH_AUTOMASKING_CAVITY_INVERT}],
    ss, v)

\* clamp(0.5 + 0.5 * c * cavity_factor * 50, 0, 1) for the raw cavity c of v.
CavityClosedForm(v) ==
  LET c == SCULPT_calc_cavity(ss, v)
      x == RAdd(RHalf, RMul(RMul(RMul(RHalf, c), automasking.settings.cavity_factor),
                           RInt(50)))
  IN  IF IsNaN(x) THEN NaN
      ELSE IF RLt(x, R0) THEN R0 ELSE IF RLt(R1, x) THEN R1 ELSE x

\* C13: for every vertex geometry and every cavity_factor, the cavity value
\* with the CavityInverted flag set equals 1 - f, where f is the value for the
\* same vertex and cavity_factor without the flag, and f is
\* clamp(0.5 + 0.5 * c * cavity_factor * 50, 0, 1) for the raw cavity c.
C13_InvertedIsComplement ==
  CavityQueried =>
    LET f == CavityValue(result.vert, FALSE)
        g == CavityValue(result.vert, TRUE)
    IN  /\ REq(g, RSub(R1, f))
        /\ REq(f, CavityClosedForm(result.vert))
        /\ result.value \in {f, g}

\* The mesh is a single isolated vertex, Cavity is the enabled strategy and
\* cavity_factor is 1.0.
IsolatedVertexCase ==
  /\ ss.totvert = 1 /\ ss.neighbors[0] = {}
  /\ EffectiveFlags = {BRUSH_AUTOMASKING_CAVITY}
  /\ brush # NoBrush /\ brush.automasking_cavity_factor = R1

\* C14: for a vertex with no neighbours the raw cavity is exactly 0.0, and on
\* a mesh that is a single isolated vertex with Cavity enabled and
\* cavity_factor = 1.0, factor_get(v) returns 0.5 whichever path (on-demand
\* evaluation or precomputed array with blur) serves the query.
C14_IsolatedVertexHalf ==
  /\ \A v \in Verts(ss) :
       ss.neighbors[v] = {} => SCULPT_calc_cavity(ss, v) = R0
  /\ (IsolatedVertexCase /\ Queried /\ HasCache) => result.value = RHalf

\* The mean of the array a over the neighbours of v, 0 without neighbours.
NeighbourMean(a, v) ==
  LET nb == ss.neighbors[v]
      RECURSIVE total(_)
      total(S) == IF S = {} THEN R0
                  ELSE LET j == CHOOSE x \in S : TRUE
                       IN  RAdd(a[j], total(S \ {j}))
  IN  IF nb = {} THEN R0 ELSE RDiv(total(nb), RInt(Cardinality(nb)))

\* C15: in every blur round of the Cavity whole-mesh initializer the new
\* value of each vertex v is (mean of its neighbours' values from the
\* previous round + v's own value from the previous round) * 0.5, the mean
\* being 0 when v has no neighbours; the previous-round values of the first
\* round are the unblurred cavity strategy values.
C15_BlurIsDampedAverage ==
  [][CavityBlurRound =>
       LET previous == cav.heap[cav.factor]
           new == cav'.heap[cav'.factor]
       IN  /\ cav.iteration = 0 =>
                previous = [v \in Verts(ss) |->
                              sculpt_automasking_cavity_factor(automasking, ss, v)]
           /\ \A v \in Verts(ss) :
                new[v] = RMul(RAdd(NeighbourMean(previous, v), previous[v]),
                              RHalf)]_vars

\* The cavity initializer is running with a blur (steps > 1).
CavityBlurring ==
  /\ cav.pc \in {"fill", "blur"}
  /\ cav.boundary_propagation_steps > 1

\* C16: when the Cavity initializer blurs, the caller's factor array is not
\* written during the blur rounds and is multiplied exactly once, entry by
\* entry, by the final blurred buffer; both scratch buffers are released
\* before the initializer returns.
C16_CallerArrayMultipliedOnce ==
  [][CavityBlurring =>
       /\ (cav'.pc # "returned") => automasking' = automasking
       /\ (cav'.pc = "returned") =>
            /\ DOMAIN cav.heap = {"A", "B"}
            /\ DOMAIN cav'.heap = {}
            /\ automasking'.settings = automasking.settings
            /\ LET blurred ==
                     cavity_blur(ss,
                                 [factor |->
                                    float_array(
                                      [v \in Verts(ss) |->
                                         sculpt_automasking_cavity_factor(
                                           automasking, ss, v)]),
                                  scratch |-> [v \in Verts(ss) |-> R1]],
                                 0, cav.boundary_propagation_steps).factor
               IN  automasking'.factor =
                     [i \in Verts(ss) |->
                        RMul(automasking.factor[i], blurred[i])]
     ]_vars

\* The initializer returned after two blur rounds; the caller's array, which
\* the Topology initializer had set to 0 and 1, keeps a 0 and holds a blurred
\* value strictly between 0 and 1; no buffer is left allocated.
C16_Witness ==
  /\ cav.pc = "returned" /\ cav.boundary_propagation_steps > 1
  /\ cav.iteration >= 2
  /\ DOMAIN cav.heap = {}
  /\ BRUSH_AUTOMASKING_TOPOLOGY \in automasking.settings.flags
  /\ \E u, v \in Verts(ss) :
       /\ automasking.factor[u] = R0
       /\ RLt(R0, automasking.factor[v]) /\ RLt(automasking.factor[v], R1)

\* The session as it would be with the vertex-to-polygon map built.
SessionWithMap == [ss EXCEPT !.pmap = TRUE]

\* The map a whole-mesh initializer asks for is missing: the Topology, Face
\* Sets and Cavity initializers ask for it on a PBVH_FACES mesh, the boundary
\* initializer always.
MapMissing(flag) ==
  IF flag \in {BRUSH_AUTOMASKING_BOUNDARY_EDGES, BRUSH_AUTOMASKING_BOUNDARY_FACE_SETS}
    THEN ~ss.pmap
    ELSE ss.pbvh_type = "PBVH_FACES" /\ ~ss.pmap

\* What strategy flag does to an array of ones when its map is there.
ContributionWithMap(flag) ==
  CASE flag = BRUSH_AUTOMASKING_TOPOLOGY ->
         SCULPT_topology_automasking_init(sd, SessionWithMap, Ones, NoBrush)
    [] flag = BRUSH_AUTOMASKING_FACE_SETS ->
         sculpt_face_sets_automasking_init(sd, SessionWithMap, Ones)
    [] flag = BRUSH_AUTOMASKING_CAVITY ->
         sculpt_cavity_automasking_init(sd, SessionWithMap, automasking,
                                        Ones, PropagationSteps)
    [] flag = BRUSH_AUTOMASKING_BOUNDARY_EDGES ->
         SCULPT_boundary_automasking_init(
           SessionWithMap, AUTOMASK_INIT_BOUNDARY_EDGES, PropagationSteps, Ones)
    [] flag = BRUSH_AUTOMASKING_BOUNDARY_FACE_SETS ->
         SCULPT_boundary_automasking_init(
           SessionWithMap, AUTOMASK_INIT_BOUNDARY_FACE_SETS, PropagationSteps, Ones)

\* The factor of every vertex when every enabled strategy whose map is
\* missing counts as an all-pass 1.0.
AllPassWhereMapMissing ==
  LET one(flag) == IF flag \in EffectiveFlags /\ ~MapMissing(flag)
                     THEN ContributionWithMap(flag) ELSE Ones
      topology == one(BRUSH_AUTOMASKING_TOPOLOGY)
      face_sets == one(BRUSH_AUTOMASKING_FACE_SETS)
      cavity == one(BRUSH_AUTOMASKING_CAVITY)
      boundary_edges == one(BRUSH_AUTOMASKING_BOUNDARY_EDGES)
      boundary_face_sets == one(BRUSH_AUTOMASKING_BOUNDARY_FACE_SETS)
  IN  [v \in Verts(ss) |->
         RMul(RMul(RMul(RMul(topology[v], face_sets[v]), cavity[v]),
                   boundary_edges[v]),
              boundary_face_sets[v])]

\* C17: if the adjacency map a whole-mesh initializer requires is missing,
\* the initializer returns without modifying any entry of the factor array,
\* and cache_init still returns a usable cache in which that strategy imposes
\* no constraint (an all-pass factor of 1.0).
C17_MissingMapIsAllPass ==
  (CacheReturned /\ ~ss.pmap /\ SCULPT_automasking_needs_factors_cache(sd, brush)
     /\ SCULPT_is_automasking_enabled(sd, ss, brush))
    => /\ HasArray
       /\ LET all_pass == AllPassWhereMapMissing
          IN  /\ \A v \in Verts(ss) : automasking.factor[v] = all_pass[v]
              /\ Queried => result.value = all_pass[result.vert]

\* On a multires mesh without pmap, Cavity and Boundary Edges enabled: the
\* queried boundary vertex, which the boundary initializer would set to 0,
\* has the cavity value alone.
C17_Witness ==
  /\ Queried /\ HasArray /\ ~ss.pmap /\ ss.pbvh_type = "PBVH_GRIDS"
  /\ {BRUSH_AUTOMASKING_CAVITY, BRUSH_AUTOMASKING_BOUNDARY_EDGES}
       \subseteq EffectiveFlags
  /\ ss.boundary[result.vert]
  /\ RLt(R0, result.value) /\ RLt(result.value, R1)

\* C18: calling cache_free on a null cache, or a second time on a cache that
\* has already been freed, is a no-op: it releases nothing, touches no memory
\* of the freed cache and does not crash.
C18_FreeIsIdempotent ==
  [][(CacheFree /\ (automasking = NULL \/ automasking = FREED))
       => /\ automasking' = automasking
          /\ phase' = "Freed"]_vars

\* C19: over any sequence of cache_init, factor_get and cache_free calls of
\* one stroke the cache moves only along Uninitialized -> Active (without or
\* with array) -> Freed; whether the array is present is fixed by cache_init
\* and never changes while Active; cache_free releases the factor array
\* together with the cache object, so that no factor array outlives its cache.
C19_CacheLifecycle ==
  [][/\ <<phase, phase'>> \in {<<"Uninitialized", "Active">>,
                               <<"Active", "Active">>,
                               <<"Active", "Freed">>,
                               <<"Freed", "Freed">>}
     /\ (phase = "Active" /\ phase' = "Active") => automasking' = automasking
     /\ phase' = "Freed" => automasking' \in {NULL, FREED}]_vars

\* C20: after cache_init has returned no operation other than cache_free
\* writes the factor array or the settings, so any number of factor_get
\* calls issued concurrently by different workers, in any interleaving, each
\* return the same value as the same call made alone.
C20_ConcurrentQueriesAgree ==
  [][(WorkerCall \/ WorkerStep) =>
       /\ automasking' = automasking
       /\ ss' = ss
       /\ \A w \in Workers :
            calls'[w].pc = "returned" =>
              calls'[w].value =
                SCULPT_automasking_factor_get(automasking, ss, calls'[w].vert)
     ]_vars

\* Two calls that overlapped have returned, for different vertices and with
\* different values, one of them from the cavity rule.
C20_Witness ==
  /\ HasCache /\ ~HasArray
  /\ calls["w1"].pc = "returned" /\ calls["w2"].pc = "returned"
  /\ calls["w1"].overlap \/ calls["w2"].overlap
  /\ calls["w1"].vert # calls["w2"].vert
  /\ calls["w1"].value = R0
  /\ RLt(R0, calls["w2"].value) /\ RLt(calls["w2"].value, R1)

\* The initializers of the set done other than Topology, applied to the array
\* f in the order SCULPT_automasking_cache_init calls them.
InCacheInitOrder(done, f) ==
  LET steps == brush.automasking_boundary_edges_propagation_steps
      f2 == IF BRUSH_AUTOMASKING_FACE_SETS \in done
              THEN sculpt_face_sets_automasking_init(sd, ss, f) ELSE f
      f3 == IF BRUSH_AUTOMASKING_CAVITY \in done
              THEN sculpt_cavity_automasking_init(sd, ss, automasking, f2, steps)
              ELSE f2
      f4 == IF BRUSH_AUTOMASKING_BOUNDARY_EDGES \in done
              THEN SCULPT_boundary_automasking_init(
                     ss, AUTOMASK_INIT_BOUNDARY_EDGES, steps, f3)
              ELSE f3
      f5 == IF BRUSH_AUTOMASKING_BOUNDARY_FACE_SETS \in done
              THEN SCULPT_boundary_automasking_init(
                     ss, AUTOMASK_INIT_BOUNDARY_FACE_SETS, steps, f4)
              ELSE f4
  IN  f5

InitializerMultiplier(flag) ==
  CASE flag = BRUSH_AUTOMASKING_FACE_SETS -> FaceSetsContribution
    [] flag = BRUSH_AUTOMASKING_CAVITY -> CavityContribution
    [] flag = BRUSH_AUTOMASKING_BOUNDARY_EDGES -> BoundaryEdgesContribution
    [] flag = BRUSH_AUTOMASKING_BOUNDARY_FACE_SETS -> BoundaryFaceSetsContribution

\* Every entry of the array after is the float product of the entry before
\* and the multiplier m of its vertex.
MultipliedBy(before, after, m) ==
  \A v \in DOMAIN before : after[v] = RMul(before[v], m[v])

C22_StoredSettings ==
  [][(CacheInit /\ phase' = "Active" /\ automasking' # NULL)
       => /\ automasking'.settings.flags = SceneFlags \cup BrushFlags
          /\ automasking'.settings.initial_face_set = ss.active_face_set
          /\ brush # NoBrush
               => automasking'.settings.cavity_factor = brush.automasking_cavity_factor
          /\ \A mode \in AllFlags :
               SCULPT_is_automasking_mode_enabled(sd, brush, mode)
                 <=> (mode \in SceneFlags \/ mode \in BrushFlags)]_vars

\* A cache whose flags come partly from the scene and partly from the brush.
C22_Witness ==
  /\ HasCache /\ brush # NoBrush
  /\ SceneFlags \ BrushFlags # {}
  /\ BrushFlags \ SceneFlags # {}
  /\ automasking.settings.flags = SceneFlags \cup BrushFlags
  /\ automasking.settings.cavity_factor = brush.automasking_cavity_factor
  /\ automasking.settings.initial_face_set = ss.active_face_set

\* An edit that changes the active face set and nothing else.
ActiveFaceSetChanged ==
  /\ MeshEdit
  /\ ss'.active_face_set # ss.active_face_set
  /\ ss' = [ss EXCEPT !.active_face_set = ss'.active_face_set]

\* C23: with FaceSets enabled every factor_get of the stroke, on demand or
\* from the array, returns 0.0 for a vertex that does not carry the
\* initial_face_set captured by cache_init, and a change of the active face
\* set after cache_init changes no returned factor.  (Stated for the
\* vertices whose face sets are those they had at cache_init, which on the
\* meshes of these strokes are the face sets of the default mesh.)
C23_InitialFaceSetGates ==
  [][/\ (FactorGet /\ automasking # NULL
           /\ ss.face_sets[result'.vert] = DefaultMesh.face_sets[result'.vert]
           /\ BRUSH_AUTOMASKING_FACE_SETS \in automasking.settings.flags
           /\ ~SCULPT_vertex_has_face_set(ss, result'.vert,
                                          automasking.settings.initial_face_set))
          => result'.value = R0
     /\ (ActiveFaceSetChanged /\ automasking # NULL)
          => \A v \in Verts(ss) :
               SCULPT_automasking_factor_get(automasking, ss', v)
                 = SCULPT_automasking_factor_get(automasking, ss, v)]_vars

\* The flood fill stops at the vertices outside the brush radius.
FloodUsesRadius ==
  ss.cache # NULL
  /\ sculpt_automasking_is_constrained_by_radius(BKE_paint_brush(sd.paint))

\* The callback lets the traversal go on through vertex v.
FloodPasses(v) ==
  ~FloodUsesRadius
    \/ Abs(ss.co[v] - ss.co[ss.active_vertex]) <= ss.cache.radius

RECURSIVE GrowExpanded(_)
GrowExpanded(S) ==
  LET more == {w \in Verts(ss) \ S :
                 FloodPasses(w) /\ \E u \in S : w \in ss.neighbors[u]}
  IN  IF more = {} THEN S ELSE GrowExpanded(S \cup more)

\* The vertices whose edges the flood fill reports: the seed and every
\* vertex the traversal went on through.
FloodExpanded == GrowExpanded({ss.active_vertex})

\* The end points of the reported edges (from, to).
FloodEdgeEnds ==
  {v \in Verts(ss) :
     \/ v # ss.active_vertex /\ \E u \in FloodExpanded : v \in ss.neighbors[u]
     \/ v = ss.active_vertex /\ ss.neighbors[v] # {}}

\* C24: the Topology initializer zeroes every entry and then sets both ends
\* of every edge the flood fill reports to 1.0, whether or not the callback
\* lets the traversal go on through the far end; when it returns every entry
\* is exactly 0.0 or 1.0, whatever the array held before the call.
C24_TopologyMarksEdgeEnds ==
  [][CallTopologyInit
       => \A v \in Verts(ss) :
            comp'.automask_factor[v] = IF v \in FloodEdgeEnds THEN R1 ELSE R0]_vars

\* The initializer ran on an array of fractions; a vertex outside the radius
\* got 1.0 as the far end of an edge, and a vertex behind it stayed 0.0.
C24_Witness ==
  /\ comp.pc = "ready"
  /\ comp.done = {BRUSH_AUTOMASKING_TOPOLOGY}
  /\ \A v \in Verts(ss) : comp.start[v] \notin {R0, R1}
  /\ FloodUsesRadius
  /\ \E v \in Verts(ss) : ~FloodPasses(v) /\ comp.automask_factor[v] = R1
  /\ \E v \in Verts(ss) : comp.automask_factor[v] = R0

\* The five strategy bits.
StrategyFlags ==
  {BRUSH_AUTOMASKING_TOPOLOGY, BRUSH_AUTOMASKING_FACE_SETS,
   BRUSH_AUTOMASKING_BOUNDARY_EDGES, BRUSH_AUTOMASKING_BOUNDARY_FACE_SETS,
   BRUSH_AUTOMASKING_CAVITY}

\* The condition of C25: Topology is enabled, or a brush is given whose
\* boundary_propagation_steps is not 1 and at least one of Cavity,
\* BoundaryEdges, BoundaryFaceSets is enabled.
ArrayConditionOfClaim ==
  \/ BRUSH_AUTOMASKING_TOPOLOGY \in EffectiveFlags
  \/ /\ brush # NoBrush
     /\ brush.automasking_boundary_edges_propagation_steps # 1
     /\ EffectiveFlags \cap {BRUSH_AUTOMASKING_CAVITY,
                             BRUSH_AUTOMASKING_BOUNDARY_EDGES,
                             BRUSH_AUTOMASKING_BOUNDARY_FACE_SETS} # {}

\* C25 as stated: cache_init allocates the factor array if and only if the
\* condition holds; with FaceSets as the only enabled strategy there is no
\* array, whatever the boundary_propagation_steps.
C25_ArrayIffCondition ==
  /\ CacheReturned => (HasArray <=> ArrayConditionOfClaim)
  /\ (CacheReturned
        /\ EffectiveFlags \cap StrategyFlags = {BRUSH_AUTOMASKING_FACE_SETS})
       => ~HasArray

\* C25 amended: cache_init allocates the factor array if and only if it does
\* not return null for a brush on a dynamic-topology stroke and the condition
\* holds; with FaceSets as the only enabled strategy there is no array,
\* whatever the boundary_propagation_steps.  With no brush given the call
\* reads through the null brush (line 447) before the allocation of the
\* array: a call that faults there has allocated no array and returns
\* nothing.
C25_ArrayAllocation ==
  [][CacheInit =>
       /\ phase' = "Active"
            => ((automasking' # NULL /\ automasking'.factor # NULL_ARRAY)
                  <=> (~(brush # NoBrush /\ ss.dyntopo) /\ ArrayConditionOfClaim))
       /\ phase' # "Active"
            => phase' = "Crashed" /\ brush = NoBrush /\ automasking' = NULL
       /\ EffectiveFlags \cap StrategyFlags = {BRUSH_AUTOMASKING_FACE_SETS}
            => (automasking' = NULL \/ automasking'.factor = NULL_ARRAY)]_vars

\* A brush with Cavity alone and more than one propagation step: the cache
\* has the array.
C25_Witness ==
  /\ HasArray /\ brush # NoBrush
  /\ brush.automasking_boundary_edges_propagation_steps # 1
  /\ EffectiveFlags \cap StrategyFlags = {BRUSH_AUTOMASKING_CAVITY}

\* C26: after the Topology initializer succeeded, the seed (active) vertex of
\* the flood fill has factor 1.0 in every mesh, also in a mesh where the seed
\* has no neighbours and the flood fill reports no edge.  (Topology is the
\* only strategy enabled, so the array is what its initializer left.)
C26_SeedIsAutomasked ==
  (HasArray /\ ~pmap_missing(ss)
     /\ EffectiveFlags \cap StrategyFlags = {BRUSH_AUTOMASKING_TOPOLOGY})
    => automasking.factor[ss.active_vertex] = R1

\* The enabled strategies' contributions for vertex v, each evaluated on its
\* own: 1.0 for a strategy that is not enabled.
FaceSetsTerm(v) ==
  IF BRUSH_AUTOMASKING_FACE_SETS \in automasking.settings.flags
       /\ ~SCULPT_vertex_has_face_set(ss, v, automasking.settings.initial_face_set)
    THEN R0 ELSE R1

BoundaryEdgesTerm(v) ==
  IF BRUSH_AUTOMASKING_BOUNDARY_EDGES \in automasking.settings.flags
       /\ SCULPT_vertex_is_boundary(ss, v)
    THEN R0 ELSE R1

BoundaryFaceSetsTerm(v) ==
  IF BRUSH_AUTOMASKING_BOUNDARY_FACE_SETS \in automasking.settings.flags
       /\ ~SCULPT_vertex_has_unique_face_set(ss, v)
    THEN R0 ELSE R1

CavityTerm(v) ==
  IF BRUSH_AUTOMASKING_CAVITY \in automasking.settings.flags
    THEN sculpt_automasking_cavity_factor(automasking, ss, v) ELSE R1

\* C27: without a factor array, for every flag combination and every vertex,
\* factor_get returns the product of the contributions of the enabled
\* strategies (FaceSets, BoundaryEdges, BoundaryFaceSets: 1 or 0; Cavity: the
\* cavity strategy value): returning at the Cavity branch is the same as
\* multiplying the cavity value with the other tests.
C27_OnDemandIsProduct ==
  (Queried /\ HasCache /\ ~HasArray)
    => result.value =
         RMul(RMul(RMul(FaceSetsTerm(result.vert), BoundaryEdgesTerm(result.vert)),
                   BoundaryFaceSetsTerm(result.vert)),
              CavityTerm(result.vert))

\* C28: with Topology enabled and boundary_propagation_steps = 1, the factor
\* stored for a vertex the flood fill reached is the value the on-demand
\* evaluation returns for that vertex with the same FaceSets, BoundaryEdges,
\* BoundaryFaceSets and Cavity flags.
C28_ArrayAgreesWithOnDemand ==
  (HasArray /\ BRUSH_AUTOMASKING_TOPOLOGY \in EffectiveFlags
     /\ PropagationSteps = 1)
    => \A v \in Verts(ss) :
         TopologyGate[v] = R1 => automasking.factor[v] = OnDemandNow(v)

\* C29: cache_init called without a brush and with at least one strategy
\* enabled in the scene flags completes, reads no field of the absent brush,
\* and returns a cache whose flags are the scene flags and for which
\* boundary_propagation_steps counts as 1 (the array is there for Topology
\* only).
C29_NoBrushCacheInit ==
  [][(CacheInit /\ brush = NoBrush /\ SceneFlags \cap StrategyFlags # {})
       => /\ phase' = "Active"
          /\ automasking' # NULL
          /\ automasking'.settings.flags = SceneFlags
          /\ (automasking'.factor # NULL_ARRAY
                <=> BRUSH_AUTOMASKING_TOPOLOGY \in SceneFlags)]_vars

\* C30: when a brush is given and the stroke uses dynamic topology,
\* cache_init returns null whatever flags are set, and factor_get returns
\* 1.0 for every vertex of that stroke.
C30_DyntopoDisables ==
  (CacheReturned /\ brush # NoBrush /\ SCULPT_stroke_is_dynamic_topology(ss, brush))
    => /\ automasking = NULL
       /\ (result # NULL => result.value = R1)

\* A query on a dynamic-topology stroke whose brush enables Face Sets and
\* Boundary Edges, for a boundary vertex.
C30_Witness ==
  /\ Queried /\ brush # NoBrush /\ ss.dyntopo
  /\ {BRUSH_AUTOMASKING_FACE_SETS, BRUSH_AUTOMASKING_BOUNDARY_EDGES} \subseteq BrushFlags
  /\ ss.boundary[result.vert]
  /\ automasking = NULL
  /\ result.value = R1

=============================================================================
